---- MODULE Spec2Model ----
(***************************************************************************)
(* A model of wasm-vfs: the process state Proc of src/src/system.rs (the   *)
(* FD table, the open-file handles, the file system store) and the         *)
(* syscall-shaped entry points that act on it.  Every entry point is an    *)
(* operator from a Proc value and the call's arguments to the Proc value   *)
(* after the call, its return value and what it wrote through its out      *)
(* pointers; an action applies one entry point to the state.               *)
(***************************************************************************)
EXTENDS Integers, Sequences, FiniteSets, TLC

VARIABLES
    proc,   \* GLOBAL_PROC: the single Proc
    last,   \* the most recent call: its name, arguments, return value, out data
    steps,  \* the number of calls made so far
    STDOUT_LINE_ACCUM,  \* the static byte vector of the stdout branch of write
    host_lines,  \* the arguments of the calls of box_host_write_stdout_line
    GLOBAL_PROC_is_some,  \* GLOBAL_PROC holds a Mutex<Proc> (whose data is proc)
    locked,  \* Mutex::locked of that mutex
    thread,  \* per caller: where it is in an entry point
    HashMap_entries,  \* a collections::HashMap on its own: its vector of slots
    live  \* the finite map that HashMap_entries is to stand for

stdout_vars == <<STDOUT_LINE_ACCUM, host_lines>>
lock_vars == <<GLOBAL_PROC_is_some, locked, thread>>
map_vars == <<HashMap_entries, live>>
vars == <<proc, last, steps, STDOUT_LINE_ACCUM, host_lines,
          GLOBAL_PROC_is_some, locked, thread, HashMap_entries, live>>

(***************************************************************************)
(* Bounds of the model.                                                    *)
(***************************************************************************)
\* OPEN_FILES_CAP is 256 in the source (system.rs:52) and the FD table has
\* 1024 slots (system.rs:60): more descriptors can be allocated than
\* open_files has slots.  The model keeps that relation on a smaller table:
\* the reserved descriptors 0..2 and one more allocatable descriptor than
\* open_files has slots.
OPEN_FILES_CAP == 2
FdTableLen == OPEN_FILES_CAP + 4
\* Longest payload a call may produce.
MaxLen == 3
\* Largest handle position a call may produce.
MaxPos == MaxLen + 1
\* Calls per run.
MaxSteps == 4

(***************************************************************************)
(* Program constants.                                                      *)
(***************************************************************************)
O_CREAT == 64
O_TRUNC == 512
O_APPEND == 1024

\* (flags & bit) == bit, for a one-bit mask
HasFlag(flags, bit) == (flags \div bit) % 2 = 1

(***************************************************************************)
(* Option<T>: None is the empty sequence, Some(x) the sequence <<x>>.      *)
(***************************************************************************)
None == << >>
Some(x) == <<x>>
IsSome(o) == o # << >>
Unwrap(o) == o[1]

MinOf(a, b) == IF a <= b THEN a ELSE b
FirstOf(S) == CHOOSE i \in S : \A j \in S : i <= j

(***************************************************************************)
(* Vec<u8>.                                                                *)
(***************************************************************************)
Zeros(n) == [i \in 1..n |-> 0]

\* Vec::resize(new_len, 0) and Vec::truncate(new_len)
VecResize(data, new_len) ==
    IF Len(data) >= new_len THEN SubSeq(data, 1, new_len)
    ELSE data \o Zeros(new_len - Len(data))

\* copy_nonoverlapping(buf, data.as_mut_ptr().add(pos), Len(buf))
VecCopyIn(data, pos, buf) ==
    [i \in 1..Len(data) |->
        IF i > pos /\ i <= pos + Len(buf) THEN buf[i - pos] ELSE data[i]]

\* data[pos .. pos + n]
VecSlice(data, pos, n) == SubSeq(data, pos + 1, pos + n)

(***************************************************************************)
(* collections::HashMap<K, V, CAP>: CAP slots, searched in order.          *)
(***************************************************************************)
HashMap_new == [i \in 1..OPEN_FILES_CAP |-> None]

HashMap_slot(m, key) ==
    LET hits == {i \in 1..Len(m) : IsSome(m[i]) /\ m[i][1].k = key}
    IN  IF hits = {} THEN 0 ELSE FirstOf(hits)

HashMap_get(m, key) ==
    LET i == HashMap_slot(m, key)
    IN  IF i = 0 THEN None ELSE Some(m[i][1].v)

\* the first slot that is empty or holds the key takes the entry; with no
\* such slot the entry is dropped
HashMap_insert(m, key, value) ==
    LET free == {i \in 1..Len(m) : m[i] = None \/ m[i][1].k = key}
    IN  IF free = {} THEN m
        ELSE [m EXCEPT ![FirstOf(free)] = Some([k |-> key, v |-> value])]

HashMap_remove(m, key) ==
    LET i == HashMap_slot(m, key)
    IN  IF i = 0 THEN m ELSE [m EXCEPT ![i] = None]

\* *m.get_mut(key) = value, when the key is present
HashMap_set(m, key, value) ==
    LET i == HashMap_slot(m, key)
    IN  IF i = 0 THEN m ELSE [m EXCEPT ![i] = Some([k |-> key, v |-> value])]

\* iter(): the entries of the slots that are set, in slot order
HashMap_iter(m) == SelectSeq(m, LAMBDA slot : IsSome(slot))

HashMap_keys(m) == {m[i][1].k : i \in {j \in 1..Len(m) : IsSome(m[j])}}

(***************************************************************************)
(* The maps of the file system store (path index, file-data map).          *)
(***************************************************************************)
MapGet(m, key) == IF key \in DOMAIN m THEN Some(m[key]) ELSE None
MapInsert(m, key, value) ==
    [x \in (DOMAIN m) \cup {key} |-> IF x = key THEN value ELSE m[x]]
MapRemove(m, key) == [x \in (DOMAIN m) \ {key} |-> m[x]]

(***************************************************************************)
(* path::PathBuf: a path is the sequence of its characters.                *)
(***************************************************************************)
RootPath == <<"/">>

is_absolute(path) == Len(path) > 0 /\ path[1] = "/"

join(self, other) ==
    IF is_absolute(other) THEN other
    ELSE IF Len(self) > 0 /\ self[Len(self)] # "/"
         THEN self \o <<"/">> \o other
         ELSE self \o other

(***************************************************************************)
(* filesystem: Inode and FileSystem.                                       *)
(***************************************************************************)
Inode_new(number, size, permissions, kind, target) ==
    [number |-> number, size |-> size, permissions |-> permissions,
     kind |-> kind, target |-> target]

\* mode & bit != 0, for a one-bit mask
Bit(mode, bit) == (mode \div bit) % 2 = 1

\* impl From<u16> for Permissions
Permissions_from(mode) ==
    [owner |-> [read |-> Bit(mode, 256), write |-> Bit(mode, 128),
                execute |-> Bit(mode, 64)],
     group |-> [read |-> Bit(mode, 32), write |-> Bit(mode, 16),
                execute |-> Bit(mode, 8)],
     other |-> [read |-> Bit(mode, 4), write |-> Bit(mode, 2),
                execute |-> Bit(mode, 1)]]

\* Inode::default(): number 0, size 0, no permission bit, kind File
Inode_default == Inode_new(0, 0, Permissions_from(0), "File", << >>)

\* Root ("/", inode 0) is created during initialization
FileSystem_new ==
    [inodes |-> <<Inode_new(0, 0, Permissions_from(493), "Directory", << >>)>>,
     next_inode_number |-> 1,
     current_directory |-> RootPath,
     files |-> (0 :> << >>),
     path_map |-> (RootPath :> 0)]

\* fs.inodes.get(n): the Vec is indexed by inode number
inodes_get(fs, n) ==
    IF n >= 0 /\ n < Len(fs.inodes) THEN Some(fs.inodes[n + 1]) ELSE None

\* the Vec is padded with default inodes and the record is not stored
inodes_put_default(inodes, n, inode) ==
    IF Len(inodes) <= n
    THEN inodes \o [i \in 1..(n + 1 - Len(inodes)) |-> Inode_default]
    ELSE inodes

\* fs.inodes[n] = inode, the Vec first padded with default inodes
inodes_put(inodes, n, inode) ==
    LET padded == IF Len(inodes) <= n
                  THEN inodes \o [i \in 1..(n + 1 - Len(inodes)) |-> Inode_default]
                  ELSE inodes
    IN  [padded EXCEPT ![n + 1] = inode]

lookup_inode_by_path(fs, path) == MapGet(fs.path_map, path)

\* allocates a new inode number, materializes a File inode with permissions
\* mode & 0o777, registers the path and installs an empty payload
create_file(fs, path, mode) ==
    LET n == fs.next_inode_number
    IN  [fs EXCEPT
            !.next_inode_number = n + 1,
            !.inodes = inodes_put(fs.inodes, n,
                                  Inode_new(n, 0, Permissions_from(mode % 512), "File", << >>)),
            !.path_map = MapInsert(fs.path_map, path, n),
            !.files = MapInsert(fs.files, n, << >>)]

(***************************************************************************)
(* system: Proc.                                                           *)
(***************************************************************************)
OpenFileHandle(inode_number, position, append_mode) ==
    [inode_number |-> inode_number, position |-> position,
     append_mode |-> append_mode]

Proc_new ==
    [fs |-> FileSystem_new,
     fd_table |-> [i \in 0..(FdTableLen - 1) |-> None],
     open_files |-> HashMap_new,
     umask_value |-> 18]

\* the first unused slot, the reserved descriptors included
allocate_fd_from_zero(p) ==
    LET free == {i \in 0..(FdTableLen - 1) : p.fd_table[i] = None}
    IN  IF free = {} THEN None ELSE Some(FirstOf(free))

\* the first unused slot at index 3 or above
allocate_fd(p) ==
    LET free == {i \in 3..(FdTableLen - 1) : p.fd_table[i] = None}
    IN  IF free = {} THEN None ELSE Some(FirstOf(free))

get_absolute_path(p, path) ==
    IF is_absolute(path) THEN path ELSE join(p.fs.current_directory, path)

get_inode(p, inode_num) == inodes_get(p.fs, inode_num)

\* inode.size = new_size, when the inode exists
set_inode_size(p, inode_num, new_size) ==
    IF IsSome(get_inode(p, inode_num))
    THEN [p EXCEPT !.fs.inodes[inode_num + 1].size = new_size]
    ELSE p

\* fd as usize < fd_table.len()
InRange(fd) == fd >= 0 /\ fd < FdTableLen

fd_slot(p, fd) == IF InRange(fd) THEN p.fd_table[fd] ELSE None

(***************************************************************************)
(* The result of a call.                                                   *)
(***************************************************************************)
\* a stat buffer the call did not fill
NoStat ==
    [st_dev |-> 0, st_ino |-> 0, st_mode |-> 0, st_nlink |-> 0, st_rdev |-> 0,
     st_size |-> 0, st_blksize |-> 0, st_blocks |-> 0]

\* proc: the Proc after the call; ret: the return value; out: the bytes copied
\* to the caller's buffer; st: the stat buffer; off_in, off_out: the values
\* behind the offset pointers after the call (None for a null pointer);
\* panicked: the call hit an unwrap of None
Result(p, ret, out) ==
    [proc |-> p, ret |-> ret, out |-> out, st |-> NoStat,
     off_in |-> None, off_out |-> None, panicked |-> FALSE]
Fail(p) == Result(p, -1, << >>)
Panic(p) == [Fail(p) EXCEPT !.panicked = TRUE]

(***************************************************************************)
(* open, close.                                                            *)
(***************************************************************************)
wasm_vfs_open(p, path, flags, mode) ==
    LET should_create == HasFlag(flags, O_CREAT)
        should_truncate == HasFlag(flags, O_TRUNC)
        append_mode == HasFlag(flags, O_APPEND)
        found == lookup_inode_by_path(p.fs, path)
    IN  IF found = None /\ ~should_create THEN Fail(p)
        ELSE
        LET \* 1) the inode number
            fs1 == IF IsSome(found) THEN p.fs ELSE create_file(p.fs, path, mode)
            inode_number == IF IsSome(found) THEN Unwrap(found)
                            ELSE p.fs.next_inode_number
            \* 2) possibly truncate: the payload is cleared, the inode is not touched
            files2 == IF should_truncate
                      THEN IF inode_number \in DOMAIN fs1.files
                           THEN [fs1.files EXCEPT ![inode_number] = << >>]
                           ELSE fs1.files
                      ELSE IF inode_number \in DOMAIN fs1.files
                           THEN fs1.files
                           ELSE MapInsert(fs1.files, inode_number, << >>)
            p2 == [p EXCEPT !.fs = [fs1 EXCEPT !.files = files2]]
            \* 3) allocate the FD
            slot == allocate_fd(p2)
        IN  IF slot = None THEN Fail(p2)
            ELSE
            LET fd == Unwrap(slot)
                \* 4) the initial position
                data == MapGet(files2, inode_number)
                initial_pos == IF append_mode
                               THEN (IF IsSome(data) THEN Len(Unwrap(data)) ELSE 0)
                               ELSE 0
                \* 5) the handle
                p3 == [p2 EXCEPT
                         !.fd_table[fd] = Some(inode_number),
                         !.open_files = HashMap_insert(p2.open_files, fd,
                             OpenFileHandle(inode_number, initial_pos, append_mode))]
            IN  Result(p3, fd, << >>)

\* close that does not look at the slot
close_unchecked(p, fd) ==
    IF InRange(fd)
    THEN Result([p EXCEPT !.fd_table[fd] = None,
                          !.open_files = HashMap_remove(p.open_files, fd)],
                0, << >>)
    ELSE Fail(p)

wasm_vfs_close(p, fd) ==
    IF InRange(fd) /\ IsSome(p.fd_table[fd])
    THEN Result([p EXCEPT !.fd_table[fd] = None,
                          !.open_files = HashMap_remove(p.open_files, fd)],
                0, << >>)
    ELSE Fail(p)

(***************************************************************************)
(* read, write, lseek.                                                     *)
(***************************************************************************)
\* h2.position = new_position, through open_files.get_mut(&fd)
set_position(p, fd, new_position) ==
    LET h == HashMap_get(p.open_files, fd)
    IN  IF h = None THEN p
        ELSE [p EXCEPT !.open_files =
                HashMap_set(p.open_files, fd,
                            [Unwrap(h) EXCEPT !.position = new_position])]

wasm_vfs_read(p, fd, count) ==
    LET h == HashMap_get(p.open_files, fd)
    IN  IF h = None THEN Fail(p)
        ELSE
        LET inode_num == Unwrap(h).inode_number
            position == Unwrap(h).position
            d == MapGet(p.fs.files, inode_num)
        IN  IF d = None THEN Fail(p)
            ELSE IF position >= Len(Unwrap(d)) THEN Result(p, 0, << >>)
            ELSE
            LET data == Unwrap(d)
                to_read == MinOf(count, Len(data) - position)
            IN  Result(set_position(p, fd, position + to_read), to_read,
                       VecSlice(data, position, to_read))

\* where a write starts: the payload length in append mode, else the position
write_start_at_position(append_mode, data_len, old_pos) == old_pos
write_start(append_mode, data_len, old_pos) ==
    IF append_mode THEN data_len ELSE old_pos

\* b'\n'
NEWLINE == 10

\* the loop of the stdout branch from byte i of incoming on: each byte is
\* pushed on the accumulator, and a newline hands the accumulator to the host
\* and clears it
RECURSIVE stdout_bytes(_, _, _, _)
stdout_bytes(accum, lines, incoming, i) ==
    IF i > Len(incoming) THEN [accum |-> accum, lines |-> lines]
    ELSE LET pushed == Append(accum, incoming[i])
         IN  IF incoming[i] = NEWLINE
             THEN stdout_bytes(<< >>, Append(lines, pushed), incoming, i + 1)
             ELSE stdout_bytes(pushed, lines, incoming, i + 1)

\* a stdout branch that hands over accumulator and buffer at once when the
\* buffer has a newline
write_stdout_whole(accum, incoming) ==
    IF \E i \in 1..Len(incoming) : incoming[i] = NEWLINE
    THEN [accum |-> << >>, lines |-> <<accum \o incoming>>]
    ELSE [accum |-> accum \o incoming, lines |-> << >>]

\* the stdout branch of write: the accumulator after the call and the lines
\* the host received during it
write_stdout(accum, incoming) == stdout_bytes(accum, << >>, incoming, 1)

\* the Proc part of write; fd 1 returns before Proc is locked
wasm_vfs_write(p, fd, buf) ==
    LET count == Len(buf)
        h == HashMap_get(p.open_files, fd)
    IN  IF fd = 1 THEN Result(p, count, << >>)
        ELSE IF h = None THEN Fail(p)
        ELSE
        LET inode_num == Unwrap(h).inode_number
            old_pos == Unwrap(h).position
            append_mode == Unwrap(h).append_mode
            d == MapGet(p.fs.files, inode_num)
        IN  IF d = None THEN Fail(p)
            ELSE
            LET data == Unwrap(d)
                actual_pos == write_start(append_mode, Len(data), old_pos)
                grown == IF actual_pos + count > Len(data)
                         THEN VecResize(data, actual_pos + count)
                         ELSE data
                written == VecCopyIn(grown, actual_pos, buf)
                new_position == actual_pos + count
                p2 == [p EXCEPT !.fs.files[inode_num] = written]
                p3 == set_position(p2, fd, new_position)
                final_size == Len(written)
            IN  Result(set_inode_size(p3, inode_num, final_size), count, << >>)

\* the position a seek asks for; whence is 0, 1 or 2
seek_target_from_start(offset, whence, old_pos, size) == offset
seek_target(offset, whence, old_pos, size) ==
    CASE whence = 0 -> offset
      [] whence = 1 -> old_pos + offset
      [] whence = 2 -> size + offset

wasm_vfs_lseek(p, fd, offset, whence) ==
    LET h == HashMap_get(p.open_files, fd)
    IN  IF h = None THEN Fail(p)
        ELSE
        LET inode_num == Unwrap(h).inode_number
            old_pos == Unwrap(h).position
            d == MapGet(p.fs.files, inode_num)
        IN  IF d = None THEN Fail(p)
            ELSE IF whence \notin {0, 1, 2} THEN Fail(p)
            ELSE
            LET size == Len(Unwrap(d))
                new_pos == seek_target(offset, whence, old_pos, size)
            IN  IF new_pos < 0 THEN Fail(p)
                ELSE Result(set_position(p, fd, new_pos), new_pos, << >>)

(***************************************************************************)
(* dup, dup2.                                                              *)
(***************************************************************************)
wasm_vfs_dup(p, oldfd) ==
    IF ~(InRange(oldfd) /\ IsSome(p.fd_table[oldfd])) THEN Fail(p)
    ELSE
    LET inode_number == Unwrap(p.fd_table[oldfd])
        old_handle == HashMap_get(p.open_files, oldfd)
        slot == allocate_fd(p)
    IN  IF old_handle = None THEN Fail(p)
        ELSE IF slot = None THEN Fail(p)
        ELSE
        LET new_fd == Unwrap(slot)
            h == Unwrap(old_handle)
            new_handle == OpenFileHandle(h.inode_number, h.position, h.append_mode)
        IN  Result([p EXCEPT !.fd_table[new_fd] = Some(h.inode_number),
                             !.open_files = HashMap_insert(p.open_files, new_fd,
                                                           new_handle)],
                   new_fd, << >>)

wasm_vfs_dup2(p, oldfd, newfd) ==
    IF ~(InRange(oldfd) /\ InRange(newfd)) THEN Fail(p)
    ELSE IF p.fd_table[oldfd] = None THEN Fail(p)
    ELSE IF oldfd = newfd THEN Result(p, newfd, << >>)
    ELSE
    LET inode_number == Unwrap(p.fd_table[oldfd])
        \* newfd, when open, is closed first
        p1 == IF IsSome(p.fd_table[newfd])
              THEN [p EXCEPT !.fd_table[newfd] = None,
                             !.open_files = HashMap_remove(p.open_files, newfd)]
              ELSE p
        p2 == [p1 EXCEPT !.fd_table[newfd] = Some(inode_number)]
        old_handle == HashMap_get(p2.open_files, oldfd)
        p3 == IF IsSome(old_handle)
              THEN LET h == Unwrap(old_handle)
                   IN  [p2 EXCEPT !.open_files =
                          HashMap_insert(p2.open_files, newfd,
                              OpenFileHandle(h.inode_number, h.position,
                                             h.append_mode))]
              ELSE p2
    IN  Result(p3, newfd, << >>)

(***************************************************************************)
(* pread64, pwrite64.  The offset is taken as usize: the model's calls     *)
(* pass offsets >= 0.                                                      *)
(***************************************************************************)
wasm_vfs_pread64(p, fd, count, offset) ==
    LET h == HashMap_get(p.open_files, fd)
    IN  IF h = None THEN Fail(p)
        ELSE
        LET d == MapGet(p.fs.files, Unwrap(h).inode_number)
            position == offset
        IN  IF d = None THEN Fail(p)
            ELSE IF position >= Len(Unwrap(d)) THEN Result(p, 0, << >>)
            ELSE
            LET to_read == MinOf(count, Len(Unwrap(d)) - position)
            IN  Result(p, to_read, VecSlice(Unwrap(d), position, to_read))

\* pwrite done as a seek and a write: the handle's position moves
pwrite_by_seek(p, fd, buf, offset) ==
    wasm_vfs_write(set_position(p, fd, offset), fd, buf)

wasm_vfs_pwrite64(p, fd, buf, offset) ==
    LET count == Len(buf)
        h == HashMap_get(p.open_files, fd)
    IN  IF h = None THEN Fail(p)
        ELSE
        LET inode_num == Unwrap(h).inode_number
            d == MapGet(p.fs.files, inode_num)
            position == offset
        IN  IF d = None THEN Fail(p)
            ELSE
            LET data == Unwrap(d)
                grown == IF position + count > Len(data)
                         THEN VecResize(data, position + count)
                         ELSE data
                written == VecCopyIn(grown, position, buf)
                p2 == [p EXCEPT !.fs.files[inode_num] = written]
                final_len == Len(written)
            IN  Result(set_inode_size(p2, inode_num, final_len), count, << >>)

(***************************************************************************)
(* sendfile, splice.  An offset pointer is an Option: None is the null     *)
(* pointer, Some(v) a pointer to the value v (>= 0 in the model's calls).  *)
(***************************************************************************)
\* where a copy reads from: *offset with an offset pointer, else the input
\* handle's position
copy_start_at_position(offset, in_pos) == in_pos
copy_start(offset, in_pos) ==
    IF IsSome(offset) THEN Unwrap(offset) ELSE in_pos

wasm_vfs_sendfile(p, out_fd, in_fd, offset, count) ==
    LET h_in == HashMap_get(p.open_files, in_fd)
        h_out == HashMap_get(p.open_files, out_fd)
    IN  IF h_in = None THEN Fail(p)
        ELSE IF h_out = None THEN Fail(p)
        ELSE
        LET in_inode_number == Unwrap(h_in).inode_number
            in_pos == Unwrap(h_in).position
            out_inode_number == Unwrap(h_out).inode_number
            out_pos == Unwrap(h_out).position
            out_app == Unwrap(h_out).append_mode
            in_d == MapGet(p.fs.files, in_inode_number)
        IN  IF in_d = None THEN Fail(p)
            ELSE
            LET in_data == Unwrap(in_d)
                read_pos == copy_start(offset, in_pos)
            IN  IF read_pos >= Len(in_data)
                THEN [Result(p, 0, << >>) EXCEPT !.off_in = offset]
                ELSE
                LET to_copy == MinOf(count, Len(in_data) - read_pos)
                    out_d == MapGet(p.fs.files, out_inode_number)
                IN  IF out_d = None THEN [Fail(p) EXCEPT !.off_in = offset]
                    ELSE
                    LET out_data == Unwrap(out_d)
                        real_out_pos == IF out_app THEN Len(out_data) ELSE out_pos
                        grown == IF real_out_pos + to_copy > Len(out_data)
                                 THEN VecResize(out_data, real_out_pos + to_copy)
                                 ELSE out_data
                        copied == VecCopyIn(grown, real_out_pos,
                                            VecSlice(in_data, read_pos, to_copy))
                        p1 == [p EXCEPT !.fs.files[out_inode_number] = copied]
                        \* the input handle advances only without an offset pointer
                        p2 == IF offset = None
                              THEN set_position(p1, in_fd, in_pos + to_copy)
                              ELSE p1
                        new_len == Len(copied)
                        \* the output handle; the inode's size is not touched
                        p3 == set_position(p2, out_fd,
                                           IF out_app THEN new_len
                                           ELSE out_pos + to_copy)
                    IN  [Result(p3, to_copy, << >>) EXCEPT
                            !.off_in = IF IsSome(offset)
                                       THEN Some(Unwrap(offset) + to_copy)
                                       ELSE None]

wasm_vfs_splice(p, fd_in, off_in, fd_out, off_out, len) ==
    LET h_in == HashMap_get(p.open_files, fd_in)
        h_out == HashMap_get(p.open_files, fd_out)
    IN  IF h_in = None THEN Fail(p)
        ELSE IF h_out = None THEN Fail(p)
        ELSE
        LET in_ino == Unwrap(h_in).inode_number
            in_pos == Unwrap(h_in).position
            out_ino == Unwrap(h_out).inode_number
            out_pos == Unwrap(h_out).position
            out_app == Unwrap(h_out).append_mode
            in_d == MapGet(p.fs.files, in_ino)
            unmoved(r) == [r EXCEPT !.off_in = off_in, !.off_out = off_out]
        IN  IF in_d = None THEN Fail(p)
            ELSE
            LET in_data == Unwrap(in_d)
                read_pos == copy_start(off_in, in_pos)
            IN  IF read_pos >= Len(in_data) THEN unmoved(Result(p, 0, << >>))
                ELSE
                LET to_copy == MinOf(len, Len(in_data) - read_pos)
                    out_d == MapGet(p.fs.files, out_ino)
                IN  IF out_d = None THEN unmoved(Fail(p))
                    ELSE
                    LET out_data == Unwrap(out_d)
                        write_pos == IF IsSome(off_out) THEN Unwrap(off_out)
                                     ELSE IF out_app THEN Len(out_data)
                                     ELSE out_pos
                        grown == IF write_pos + to_copy > Len(out_data)
                                 THEN VecResize(out_data, write_pos + to_copy)
                                 ELSE out_data
                        copied == VecCopyIn(grown, write_pos,
                                            VecSlice(in_data, read_pos, to_copy))
                        p1 == [p EXCEPT !.fs.files[out_ino] = copied]
                        p2 == IF off_in = None
                              THEN set_position(p1, fd_in, in_pos + to_copy)
                              ELSE p1
                        \* the output handle is read again, after the input
                        \* handle was moved
                        h_out2 == Unwrap(HashMap_get(p2.open_files, fd_out))
                        out_app_local == h_out2.append_mode
                        old_out_pos == h_out2.position
                        length_copy == IF out_app_local /\ off_out = None
                                       THEN Len(copied)
                                       ELSE old_out_pos
                        p3 == IF out_app_local /\ off_out = None
                              THEN set_position(p2, fd_out, length_copy)
                              ELSE IF off_out = None
                              THEN set_position(p2, fd_out, old_out_pos + to_copy)
                              ELSE p2
                    IN  [Result(p3, to_copy, << >>) EXCEPT
                            !.off_in = IF IsSome(off_in)
                                       THEN Some(Unwrap(off_in) + to_copy)
                                       ELSE None,
                            !.off_out = IF IsSome(off_out)
                                        THEN Some(Unwrap(off_out) + to_copy)
                                        ELSE None]

(***************************************************************************)
(* stat, fstat.                                                            *)
(***************************************************************************)
fill_stat_from_inode(inode) ==
    LET mode_type == CASE inode.kind = "File" -> 32768
                       [] inode.kind = "Directory" -> 16384
                       [] inode.kind = "SymbolicLink" -> 40960
        perms == inode.permissions
        bit(b, v) == IF b THEN v ELSE 0
        mode_perms ==
            bit(perms.owner.read, 256) + bit(perms.owner.write, 128)
            + bit(perms.owner.execute, 64) + bit(perms.group.read, 32)
            + bit(perms.group.write, 16) + bit(perms.group.execute, 8)
            + bit(perms.other.read, 4) + bit(perms.other.write, 2)
            + bit(perms.other.execute, 1)
    IN  [st_dev |-> 0, st_ino |-> inode.number, st_mode |-> mode_type + mode_perms,
         st_nlink |-> 1, st_rdev |-> 0, st_size |-> inode.size,
         st_blksize |-> 4096, st_blocks |-> (inode.size + 511) \div 512]

wasm_vfs_stat(p, path) ==
    LET abs_path == get_absolute_path(p, path)
        found == lookup_inode_by_path(p.fs, abs_path)
    IN  IF found = None THEN Fail(p)
        ELSE LET inode == get_inode(p, Unwrap(found))
             IN  IF inode = None THEN Panic(p)
                 ELSE [Result(p, 0, << >>) EXCEPT
                          !.st = fill_stat_from_inode(Unwrap(inode))]

wasm_vfs_fstat(p, fd) ==
    LET slot == fd_slot(p, fd)
    IN  IF slot = None THEN Fail(p)
        ELSE LET inode == get_inode(p, Unwrap(slot))
             IN  IF inode = None THEN Panic(p)
                 ELSE [Result(p, 0, << >>) EXCEPT
                          !.st = fill_stat_from_inode(Unwrap(inode))]

(***************************************************************************)
(* truncate, ftruncate, fallocate.                                         *)
(***************************************************************************)
\* the payload is resized, the inode keeps its size
set_payload_size(p, inode_number, new_size) ==
    LET d == MapGet(p.fs.files, inode_number)
    IN  IF IsSome(d)
        THEN [p EXCEPT !.fs.files[inode_number] = VecResize(Unwrap(d), new_size)]
        ELSE p

set_file_size(p, inode_number, new_size) ==
    LET d == MapGet(p.fs.files, inode_number)
        new_len == IF IsSome(d) THEN new_size ELSE 0
        p1 == IF IsSome(d)
              THEN [p EXCEPT !.fs.files[inode_number] =
                                VecResize(Unwrap(d), new_size)]
              ELSE p
    IN  set_inode_size(p1, inode_number, new_len)

wasm_vfs_truncate(p, path, length) ==
    LET abs_path == get_absolute_path(p, path)
        found == lookup_inode_by_path(p.fs, abs_path)
    IN  IF found = None THEN Fail(p)
        ELSE IF length < 0 THEN Fail(p)
        ELSE Result(set_file_size(p, Unwrap(found), length), 0, << >>)

wasm_vfs_ftruncate(p, fd, length) ==
    IF length < 0 THEN Fail(p)
    ELSE LET slot == fd_slot(p, fd)
         IN  IF slot = None THEN Fail(p)
             ELSE Result(set_file_size(p, Unwrap(slot), length), 0, << >>)

wasm_vfs_fallocate(p, fd, offset, len) ==
    IF offset < 0 \/ len < 0 THEN Fail(p)
    ELSE
    LET slot == fd_slot(p, fd)
    IN  IF slot = None THEN Fail(p)
        ELSE
        LET inode_num == Unwrap(slot)
            end == offset + len
            d == MapGet(p.fs.files, inode_num)
        IN  IF d = None THEN Panic(p)
            ELSE
            LET data == Unwrap(d)
                grown == IF Len(data) < end THEN VecResize(data, end) ELSE data
                p1 == [p EXCEPT !.fs.files[inode_num] = grown]
            IN  Result(set_inode_size(p1, inode_num, Len(grown)), 0, << >>)

(***************************************************************************)
(* path::PathBuf::parent.                                                  *)
(***************************************************************************)
\* trim_end_matches('/')
RECURSIVE trim_end_slashes(_)
trim_end_slashes(path) ==
    IF Len(path) > 0 /\ path[Len(path)] = "/"
    THEN trim_end_slashes(SubSeq(path, 1, Len(path) - 1))
    ELSE path

\* rfind('/'): the 0-based index of the last '/', None when there is none
rfind_slash(path) ==
    LET at == {i \in 1..Len(path) : path[i] = "/"}
    IN  IF at = {} THEN None
        ELSE Some((CHOOSE i \in at : \A j \in at : j <= i) - 1)

parent(path) ==
    IF path = RootPath THEN None
    ELSE
    LET trimmed == trim_end_slashes(path)
    IN  IF trimmed = << >> THEN Some(RootPath)
        ELSE
        LET idx == rfind_slash(trimmed)
        IN  IF idx = None THEN None
            ELSE IF Unwrap(idx) = 0 THEN Some(RootPath)
            ELSE Some(SubSeq(trimmed, 1, Unwrap(idx)))

\* PathBuf::file_name: what follows the last '/' of the path without its
\* trailing slashes; None for the empty path
file_name(path) ==
    IF path = << >> THEN None
    ELSE
    LET trimmed == trim_end_slashes(path)
        idx == rfind_slash(trimmed)
    IN  IF idx = None THEN Some(trimmed)
        ELSE Some(SubSeq(trimmed, Unwrap(idx) + 2, Len(trimmed)))

(***************************************************************************)
(* The iteration order of the path index is a sequence in which every key  *)
(* occurs once.  The index does not say which order it has, so a call that *)
(* iterates takes it as an input; calls with no change of the index        *)
(* between them see the same order.                                        *)
(***************************************************************************)
\* fs.path_map.iter(): the keys, in iteration order
path_map_iter(fs, order) ==
    SelectSeq(order, LAMBDA q : q \in DOMAIN fs.path_map)

\* find_map: the first key bound to the inode
path_of_inode(fs, order, inode_number) ==
    LET bound == SelectSeq(path_map_iter(fs, order),
                           LAMBDA q : fs.path_map[q] = inode_number)
    IN  IF bound = << >> THEN None ELSE Some(bound[1])

(***************************************************************************)
(* chdir, umask.                                                           *)
(***************************************************************************)
wasm_vfs_chdir(p, path) ==
    LET abs_path == get_absolute_path(p, path)
        found == lookup_inode_by_path(p.fs, abs_path)
    IN  IF found = None THEN Fail(p)
        ELSE
        LET inode == get_inode(p, Unwrap(found))
        IN  IF inode = None THEN Panic(p)
            ELSE IF Unwrap(inode).kind = "Directory"
            THEN Result([p EXCEPT !.fs.current_directory = abs_path], 0, << >>)
            ELSE Fail(p)

\* path: the first key of the path index bound to the inode; unwrap panics
\* when there is none
wasm_vfs_fchdir(p, fd, order) ==
    LET slot == fd_slot(p, fd)
    IN  IF slot = None THEN Fail(p)
        ELSE
        LET inode == get_inode(p, Unwrap(slot))
        IN  IF inode = None THEN Panic(p)
            ELSE IF Unwrap(inode).kind = "Directory"
            THEN LET path == path_of_inode(p.fs, order, Unwrap(slot))
                 IN  IF path = None THEN Panic(p)
                     ELSE Result([p EXCEPT !.fs.current_directory = Unwrap(path)],
                                 0, << >>)
            ELSE Fail(p)

\* ret: 0 for the null pointer, 1 for buf; out: the string copied to buf
wasm_vfs_getcwd(p, size) ==
    LET bytes == p.fs.current_directory
    IN  IF Len(bytes) + 1 > size THEN Result(p, 0, << >>)
        ELSE Result(p, 1, bytes)

\* returns the old mask and installs mask & 0o777
wasm_vfs_umask(p, mask) ==
    Result([p EXCEPT !.umask_value = mask % 512], p.umask_value, << >>)

(***************************************************************************)
(* rename, link, unlink.                                                   *)
(***************************************************************************)
\* rename that leaves the old entry in place
rename_keeping_old(p, oldpath, newpath) ==
    LET old_abs == get_absolute_path(p, oldpath)
        new_abs == get_absolute_path(p, newpath)
        found == lookup_inode_by_path(p.fs, old_abs)
    IN  IF found = None THEN Fail(p)
        ELSE Result([p EXCEPT !.fs.path_map =
                        MapInsert(p.fs.path_map, new_abs, Unwrap(found))],
                    0, << >>)

wasm_vfs_rename(p, oldpath, newpath) ==
    LET old_abs == get_absolute_path(p, oldpath)
        new_abs == get_absolute_path(p, newpath)
        found == lookup_inode_by_path(p.fs, old_abs)
    IN  IF found = None THEN Fail(p)
        ELSE Result([p EXCEPT !.fs.path_map =
                        MapInsert(MapRemove(p.fs.path_map, old_abs),
                                  new_abs, Unwrap(found))],
                    0, << >>)

wasm_vfs_link(p, oldpath, newpath) ==
    LET old_abs == get_absolute_path(p, oldpath)
        new_abs == get_absolute_path(p, newpath)
        found == lookup_inode_by_path(p.fs, old_abs)
    IN  IF found = None THEN Fail(p)
        ELSE Result([p EXCEPT !.fs.path_map =
                        MapInsert(p.fs.path_map, new_abs, Unwrap(found))],
                    0, << >>)

wasm_vfs_unlink(p, pathname) ==
    LET abs_path == get_absolute_path(p, pathname)
        found == lookup_inode_by_path(p.fs, abs_path)
    IN  IF found = None THEN Fail(p)
        ELSE
        LET inode == get_inode(p, Unwrap(found))
        IN  IF inode = None THEN Panic(p)
            ELSE IF Unwrap(inode).kind = "Directory" THEN Fail(p)
            ELSE Result([p EXCEPT !.fs.path_map =
                            MapRemove(p.fs.path_map, abs_path)],
                        0, << >>)

(***************************************************************************)
(* mkdir, rmdir.                                                           *)
(***************************************************************************)
\* x & !y on u16
RECURSIVE and_not_bits(_, _, _)
and_not_bits(x, y, bits) ==
    IF bits = 0 THEN 0
    ELSE (IF x % 2 = 1 /\ y % 2 = 0 THEN 1 ELSE 0)
         + 2 * and_not_bits(x \div 2, y \div 2, bits - 1)

and_not_u16(x, y) == and_not_bits(x % 65536, y % 65536, 16)

\* the permissions a new directory gets
mkdir_mode_unmasked(mode, umask_value) == mode % 65536
mkdir_mode(mode, umask_value) == and_not_u16(mode, umask_value)

\* kind SymbolicLink(target) is the pair kind, target; target is << >> otherwise
insert_directory_entry(p, path, inode_number, kind, target) ==
    LET inode == Inode_new(inode_number, 0,
                           Permissions_from(and_not_u16(511, p.umask_value)),
                           kind, target)
    IN  [p EXCEPT
            !.fs.inodes = inodes_put(p.fs.inodes, inode_number, inode),
            !.fs.path_map = MapInsert(p.fs.path_map, path, inode_number),
            !.fs.files = IF kind \in {"Directory", "File"}
                         THEN MapInsert(p.fs.files, inode_number, << >>)
                         ELSE p.fs.files]

wasm_vfs_mkdir(p, path, mode) ==
    LET abs_path == get_absolute_path(p, path)
    IN  IF IsSome(lookup_inode_by_path(p.fs, abs_path)) THEN Fail(p)
        ELSE
        LET inode_number == p.fs.next_inode_number
            p1 == [p EXCEPT !.fs.next_inode_number = inode_number + 1]
            adjusted_mode == mkdir_mode(mode, p.umask_value)
            p2 == insert_directory_entry(p1, abs_path, inode_number,
                                         "Directory", << >>)
        IN  Result([p2 EXCEPT !.fs.inodes[inode_number + 1].permissions =
                                  Permissions_from(adjusted_mode)],
                   0, << >>)

\* no entry counts as a child
children_ignored(p, path) == {}

\* the entries of the path index whose parent() is path
children_of(p, path) ==
    {q \in DOMAIN p.fs.path_map : parent(q) = Some(path)}

wasm_vfs_rmdir(p, path) ==
    LET abs_path == get_absolute_path(p, path)
        found == lookup_inode_by_path(p.fs, abs_path)
    IN  IF found = None THEN Fail(p)
        ELSE
        LET inode == get_inode(p, Unwrap(found))
        IN  IF inode = None THEN Panic(p)
            ELSE IF Unwrap(inode).kind # "Directory" THEN Fail(p)
            ELSE IF children_of(p, abs_path) # {} THEN Fail(p)
            ELSE Result([p EXCEPT !.fs.path_map =
                            MapRemove(p.fs.path_map, abs_path)],
                        0, << >>)

(***************************************************************************)
(* ffi::CStr::to_string_lossy: the bytes of a C string, decoded as UTF-8   *)
(* with U+FFFD (bytes EF BF BD) in place of what is not UTF-8.  Strings    *)
(* are sequences of bytes here; the decoding is that of                    *)
(* String::from_utf8_lossy for bytes outside E0..F4 (one- and two-byte     *)
(* sequences; any other byte is invalid on its own).                       *)
(***************************************************************************)
\* the bytes of U+FFFD
REPLACEMENT == <<239, 191, 189>>

RECURSIVE from_utf8_lossy(_)
from_utf8_lossy(bytes) ==
    IF bytes = << >> THEN << >>
    ELSE IF bytes[1] < 128
         THEN <<bytes[1]>> \o from_utf8_lossy(Tail(bytes))
    ELSE IF /\ bytes[1] \in 194..223
            /\ Len(bytes) >= 2
            /\ bytes[2] \in 128..191
         THEN <<bytes[1], bytes[2]>> \o from_utf8_lossy(Tail(Tail(bytes)))
    ELSE REPLACEMENT \o from_utf8_lossy(Tail(bytes))

to_string_lossy(bytes) == from_utf8_lossy(bytes)

(***************************************************************************)
(* symlink, readlink.  The target is a C string, given by its bytes; the   *)
(* link path is given as the string it decodes to.                         *)
(***************************************************************************)
\* symlink that takes the next inode number and leaves the counter
symlink_without_bump(p, target, linkpath) ==
    Result(insert_directory_entry(p, get_absolute_path(p, linkpath),
                                  p.fs.next_inode_number, "SymbolicLink",
                                  to_string_lossy(target)),
           0, << >>)

wasm_vfs_symlink(p, target, linkpath) ==
    LET target_str == to_string_lossy(target)
        link_abs == get_absolute_path(p, linkpath)
        inode_number == p.fs.next_inode_number
        p1 == [p EXCEPT !.fs.next_inode_number = inode_number + 1]
    IN  Result(insert_directory_entry(p1, link_abs, inode_number,
                                      "SymbolicLink", target_str),
               0, << >>)

\* out: the bytes copied to buf
wasm_vfs_readlink(p, path, bufsize) ==
    LET abs_path == get_absolute_path(p, path)
        found == lookup_inode_by_path(p.fs, abs_path)
    IN  IF found = None THEN Fail(p)
        ELSE
        LET inode == get_inode(p, Unwrap(found))
        IN  IF inode = None THEN Panic(p)
            ELSE IF Unwrap(inode).kind = "SymbolicLink"
            THEN LET bytes == Unwrap(inode).target
                     to_copy == MinOf(Len(bytes), bufsize)
                 IN  Result(p, to_copy, SubSeq(bytes, 1, to_copy))
            ELSE Fail(p)

(***************************************************************************)
(* getdents.  order is the iteration order of the path index.              *)
(***************************************************************************)
\* the size of the name field of a Dirent, and of a Dirent
D_NAME_LEN == 256
size_of_Dirent == 280

inode_kind_to_dtype(kind) ==
    CASE kind = "File" -> 8
      [] kind = "Directory" -> 4
      [] kind = "SymbolicLink" -> 10

\* the records of the entries from index i on that fit in count bytes after
\* the records already written; an entry with a long name is passed over
RECURSIVE getdents_records(_, _, _, _, _, _)
getdents_records(p, entries, i, position, written, count) ==
    IF i > Len(entries) THEN << >>
    ELSE
    LET path == entries[i]
        ino == p.fs.path_map[path]
        name == IF IsSome(file_name(path)) THEN Unwrap(file_name(path)) ELSE << >>
        d == [d_ino |-> ino, d_off |-> position + 1, d_reclen |-> 0,
              d_type |-> inode_kind_to_dtype(p.fs.inodes[ino + 1].kind),
              d_name |-> name]
    IN  IF Len(name) >= D_NAME_LEN
        THEN getdents_records(p, entries, i + 1, position, written, count)
        ELSE IF written + size_of_Dirent > count THEN << >>
        ELSE <<d>> \o getdents_records(p, entries, i + 1, position,
                                       written + size_of_Dirent, count)

\* out: the records copied to dirp
wasm_vfs_getdents(p, fd, count, order) ==
    LET h == HashMap_get(p.open_files, fd)
    IN  IF h = None THEN Fail(p)
        ELSE
        LET inode_number == Unwrap(h).inode_number
            found == get_inode(p, inode_number)
        IN  IF found = None THEN Fail(p)
            ELSE IF Unwrap(found).kind # "Directory" THEN Fail(p)
            ELSE
            LET inode == Unwrap(found)
                named == path_of_inode(p.fs, order, inode.number)
                dir_prefix == IF inode.number = 0 THEN RootPath
                              ELSE IF IsSome(named) THEN Unwrap(named)
                              ELSE RootPath
                entries == SelectSeq(path_map_iter(p.fs, order),
                               LAMBDA q : /\ q # dir_prefix
                                          /\ parent(q) = Some(dir_prefix))
                position == Unwrap(h).position
            IN  IF position >= Len(entries) THEN Result(p, 0, << >>)
                ELSE
                LET records == getdents_records(p, entries, position + 1,
                                                position, 0, count)
                IN  Result(set_position(p, fd, position + Len(records)),
                           Len(records) * size_of_Dirent, records)

(***************************************************************************)
(* The calls of a run.  A call is recorded in last with its arguments      *)
(* (the fields a call does not take hold their defaults) and its results.  *)
(***************************************************************************)
NoCall ==
    [op |-> "init", fd |-> -1, fd2 |-> -1, path |-> << >>, path2 |-> << >>,
     flags |-> 0, mode |-> 0, order |-> << >>,
     buf |-> << >>, count |-> 0, offset |-> 0, whence |-> 0,
     off_in |-> None, off_out |-> None,
     ret |-> 0, out |-> << >>, st |-> NoStat,
     off_in_after |-> None, off_out_after |-> None, panicked |-> FALSE]

\* every payload and every handle position of p is within the model's bounds
WithinBounds(p) ==
    /\ \A n \in DOMAIN p.fs.files : Len(p.fs.files[n]) <= MaxLen
    /\ \A i \in 1..Len(p.open_files) :
          IsSome(p.open_files[i]) => p.open_files[i][1].v.position <= MaxPos

\* Proc takes the result r of call c; a call that panics ends the run
ProcCall(c, r) ==
    /\ steps < MaxSteps
    /\ ~last.panicked
    /\ WithinBounds(r.proc)
    /\ proc' = r.proc
    /\ last' = [c EXCEPT !.ret = r.ret, !.out = r.out, !.st = r.st,
                         !.off_in_after = r.off_in, !.off_out_after = r.off_out,
                         !.panicked = r.panicked]
    /\ steps' = steps + 1

\* a call made while no other is in progress: it takes the lock, acts and
\* releases it; a call other than write leaves the stdout accumulator and
\* the host alone
Call(c, r) ==
    /\ ProcCall(c, r)
    /\ UNCHANGED <<stdout_vars, lock_vars, map_vars>>

Open(paths, flagset) ==
    \E path \in paths, flags \in flagset :
        Call([NoCall EXCEPT !.op = "open", !.path = path, !.flags = flags],
             wasm_vfs_open(proc, path, flags, 420))

Close(fds) ==
    \E fd \in fds :
        Call([NoCall EXCEPT !.op = "close", !.fd = fd], wasm_vfs_close(proc, fd))

Read(fds, counts) ==
    \E fd \in fds, count \in counts :
        Call([NoCall EXCEPT !.op = "read", !.fd = fd, !.count = count],
             wasm_vfs_read(proc, fd, count))

Write(fds, bufs) ==
    \E fd \in fds, buf \in bufs :
        LET s == write_stdout(STDOUT_LINE_ACCUM, buf)
        IN  /\ ProcCall([NoCall EXCEPT !.op = "write", !.fd = fd, !.buf = buf,
                                        !.count = Len(buf)],
                        wasm_vfs_write(proc, fd, buf))
            /\ STDOUT_LINE_ACCUM' = IF fd = 1 THEN s.accum ELSE STDOUT_LINE_ACCUM
            /\ host_lines' = IF fd = 1 THEN host_lines \o s.lines ELSE host_lines
            /\ UNCHANGED <<lock_vars, map_vars>>

Lseek(fds, offsets, whences) ==
    \E fd \in fds, offset \in offsets, whence \in whences :
        Call([NoCall EXCEPT !.op = "lseek", !.fd = fd, !.offset = offset,
                            !.whence = whence],
             wasm_vfs_lseek(proc, fd, offset, whence))

Dup(fds) ==
    \E oldfd \in fds :
        Call([NoCall EXCEPT !.op = "dup", !.fd = oldfd], wasm_vfs_dup(proc, oldfd))

Dup2(fds, newfds) ==
    \E oldfd \in fds, newfd \in newfds :
        Call([NoCall EXCEPT !.op = "dup2", !.fd = oldfd, !.fd2 = newfd],
             wasm_vfs_dup2(proc, oldfd, newfd))

Pread(fds, counts, offsets) ==
    \E fd \in fds, count \in counts, offset \in offsets :
        Call([NoCall EXCEPT !.op = "pread", !.fd = fd, !.count = count,
                            !.offset = offset],
             wasm_vfs_pread64(proc, fd, count, offset))

Pwrite(fds, bufs, offsets) ==
    \E fd \in fds, buf \in bufs, offset \in offsets :
        Call([NoCall EXCEPT !.op = "pwrite", !.fd = fd, !.buf = buf,
                            !.count = Len(buf), !.offset = offset],
             wasm_vfs_pwrite64(proc, fd, buf, offset))

\* fd is in_fd, fd2 is out_fd
Sendfile(fds, offs, counts) ==
    \E out_fd \in fds, in_fd \in fds, offset \in offs, count \in counts :
        Call([NoCall EXCEPT !.op = "sendfile", !.fd = in_fd, !.fd2 = out_fd,
                            !.off_in = offset, !.count = count],
             wasm_vfs_sendfile(proc, out_fd, in_fd, offset, count))

Splice(fds, offs, counts) ==
    \E fd_in \in fds, off_in \in offs, fd_out \in fds, off_out \in offs,
       len \in counts :
        Call([NoCall EXCEPT !.op = "splice", !.fd = fd_in, !.fd2 = fd_out,
                            !.off_in = off_in, !.off_out = off_out,
                            !.count = len],
             wasm_vfs_splice(proc, fd_in, off_in, fd_out, off_out, len))

StatCall(paths) ==
    \E path \in paths :
        Call([NoCall EXCEPT !.op = "stat", !.path = path], wasm_vfs_stat(proc, path))

Fstat(fds) ==
    \E fd \in fds :
        Call([NoCall EXCEPT !.op = "fstat", !.fd = fd], wasm_vfs_fstat(proc, fd))

Truncate(paths, lengths) ==
    \E path \in paths, length \in lengths :
        Call([NoCall EXCEPT !.op = "truncate", !.path = path, !.offset = length],
             wasm_vfs_truncate(proc, path, length))

Ftruncate(fds, lengths) ==
    \E fd \in fds, length \in lengths :
        Call([NoCall EXCEPT !.op = "ftruncate", !.fd = fd, !.offset = length],
             wasm_vfs_ftruncate(proc, fd, length))

Fallocate(fds, offsets, lens) ==
    \E fd \in fds, offset \in offsets, len \in lens :
        Call([NoCall EXCEPT !.op = "fallocate", !.fd = fd, !.offset = offset,
                            !.count = len],
             wasm_vfs_fallocate(proc, fd, offset, len))

Chdir(paths) ==
    \E path \in paths :
        Call([NoCall EXCEPT !.op = "chdir", !.path = path],
             wasm_vfs_chdir(proc, path))

Fchdir(fds, orders) ==
    \E fd \in fds, order \in orders :
        Call([NoCall EXCEPT !.op = "fchdir", !.fd = fd, !.order = order],
             wasm_vfs_fchdir(proc, fd, order))

Umask(masks) ==
    \E mask \in masks :
        Call([NoCall EXCEPT !.op = "umask", !.mode = mask],
             wasm_vfs_umask(proc, mask))

Rename(oldpaths, newpaths) ==
    \E oldpath \in oldpaths, newpath \in newpaths :
        Call([NoCall EXCEPT !.op = "rename", !.path = oldpath, !.path2 = newpath],
             wasm_vfs_rename(proc, oldpath, newpath))

Link(oldpaths, newpaths) ==
    \E oldpath \in oldpaths, newpath \in newpaths :
        Call([NoCall EXCEPT !.op = "link", !.path = oldpath, !.path2 = newpath],
             wasm_vfs_link(proc, oldpath, newpath))

Unlink(paths) ==
    \E path \in paths :
        Call([NoCall EXCEPT !.op = "unlink", !.path = path],
             wasm_vfs_unlink(proc, path))

Mkdir(paths, modes) ==
    \E path \in paths, mode \in modes :
        Call([NoCall EXCEPT !.op = "mkdir", !.path = path, !.mode = mode],
             wasm_vfs_mkdir(proc, path, mode))

Rmdir(paths) ==
    \E path \in paths :
        Call([NoCall EXCEPT !.op = "rmdir", !.path = path],
             wasm_vfs_rmdir(proc, path))

\* buf is the target
Symlink(targets, linkpaths) ==
    \E target \in targets, linkpath \in linkpaths :
        Call([NoCall EXCEPT !.op = "symlink", !.buf = target, !.path = linkpath],
             wasm_vfs_symlink(proc, target, linkpath))

\* out holds the records
Getdents(fds, counts, orders) ==
    \E fd \in fds, count \in counts, order \in orders :
        Call([NoCall EXCEPT !.op = "getdents", !.fd = fd, !.count = count,
                            !.order = order],
             wasm_vfs_getdents(proc, fd, count, order))

\* count is bufsize
Readlink(paths, bufsizes) ==
    \E path \in paths, bufsize \in bufsizes :
        Call([NoCall EXCEPT !.op = "readlink", !.path = path, !.count = bufsize],
             wasm_vfs_readlink(proc, path, bufsize))

(***************************************************************************)
(* Callers that run at the same time.  An entry point is a sequence of     *)
(* steps: get_or_init_proc tests GLOBAL_PROC, stores a new Mutex<Proc> when *)
(* it found none, and spins on Mutex::lock; the body runs under the guard; *)
(* the guard is dropped when the entry point returns.  GLOBAL_PROC is a    *)
(* static mut that holds the mutex in place, so a store into it replaces   *)
(* the mutex and the Proc of every guard there is.                         *)
(***************************************************************************)
Threads == {1, 2}

\* pc: idle, check, init, lock, held, drop, push; op: the entry point the
\* caller is in (the innermost one, and after its return the last one);
\* outer: the entry point was called by mount_in_memory; guards: the
\* MutexGuards the caller has
IdleThread ==
    [pc |-> "idle", op |-> "none", outer |-> FALSE, files_left |-> 0,
     fd |-> -1, i |-> 0, ret |-> 0, guards |-> 0]

\* the one FileDef of a mount_in_memory call: dest_path "/a", one byte
MountPath == <<"/", "a">>
MountData == <<7>>

\* what caller t writes on descriptor 1: one line
StdoutBuf(t) == <<96 + t, NEWLINE>>

\* caller t enters open("/a", O_CREAT), close(3) or mount_in_memory(1, files)
Enter(t, ops) ==
    /\ steps < MaxSteps
    /\ thread[t].pc = "idle"
    /\ \E op \in ops :
          thread' = [thread EXCEPT ![t] =
                        [IdleThread EXCEPT !.pc = "check", !.op = op,
                                           !.fd = IF op = "close" THEN 3 ELSE -1,
                                           !.files_left = IF op = "mount" THEN 1
                                                          ELSE 0]]
    /\ steps' = steps + 1
    /\ UNCHANGED <<proc, last, stdout_vars, GLOBAL_PROC_is_some, locked, map_vars>>

\* if GLOBAL_PROC.is_none()
get_or_init_proc_check(t) ==
    /\ thread[t].pc = "check"
    /\ thread' = [thread EXCEPT ![t].pc = IF GLOBAL_PROC_is_some THEN "lock"
                                          ELSE "init"]
    /\ UNCHANGED <<proc, last, steps, stdout_vars, GLOBAL_PROC_is_some, locked,
                   map_vars>>

\* GLOBAL_PROC = Some(Mutex::new(Proc::new())): the mutex and the Proc that
\* were there are replaced
get_or_init_proc_init(t) ==
    /\ thread[t].pc = "init"
    /\ GLOBAL_PROC_is_some' = TRUE
    /\ locked' = FALSE
    /\ proc' = Proc_new
    /\ thread' = [thread EXCEPT ![t].pc = "lock"]
    /\ UNCHANGED <<last, steps, stdout_vars, map_vars>>

\* Mutex::lock: the compare-exchange from false to true succeeds; while
\* locked is true the caller spins
Mutex_lock(t) ==
    /\ thread[t].pc = "lock"
    /\ ~locked
    /\ locked' = TRUE
    /\ thread' = [thread EXCEPT ![t].pc = "held", ![t].guards = @ + 1]
    /\ UNCHANGED <<proc, last, steps, stdout_vars, GLOBAL_PROC_is_some, map_vars>>

\* the body of the entry point, under the guard.  mount_in_memory calls open
\* for its next file with its own guard still held, or returns 0 after the
\* last one
Body(t) ==
    LET th == thread[t]
        r == IF th.op = "open"
             THEN wasm_vfs_open(proc, MountPath,
                                IF th.outer THEN 1 + O_CREAT + O_TRUNC
                                ELSE O_CREAT, 420)
             ELSE IF th.op = "write" THEN wasm_vfs_write(proc, th.fd, MountData)
             ELSE wasm_vfs_close(proc, th.fd)
    IN  /\ th.pc = "held"
        /\ IF th.op = "mount"
           THEN /\ thread' = [thread EXCEPT ![t] =
                                 IF th.files_left = 0
                                 THEN [th EXCEPT !.pc = "drop", !.ret = 0]
                                 ELSE [th EXCEPT !.pc = "check", !.op = "open",
                                                 !.outer = TRUE,
                                                 !.files_left = @ - 1]]
                /\ UNCHANGED proc
           ELSE /\ proc' = r.proc
                /\ thread' = [thread EXCEPT ![t] =
                                 [th EXCEPT !.pc = "drop", !.ret = r.ret,
                                            !.fd = IF th.op = "open" THEN r.ret
                                                   ELSE @]]
        /\ UNCHANGED <<last, steps, stdout_vars, GLOBAL_PROC_is_some, locked,
                       map_vars>>

\* Drop for MutexGuard, at the return of the entry point: Mutex::unlock
\* stores false.  A call made by mount_in_memory returns into it: after
\* open, write (or the next file when open failed); after write, close;
\* after close, the next file
MutexGuard_drop(t) ==
    LET th == thread[t]
        released == [th EXCEPT !.guards = @ - 1]
    IN  /\ th.pc = "drop"
        /\ locked' = FALSE
        /\ thread' = [thread EXCEPT ![t] =
              IF ~th.outer THEN [released EXCEPT !.pc = "idle"]
              ELSE IF th.op = "open" /\ th.ret >= 0
              THEN [released EXCEPT !.pc = "check", !.op = "write"]
              ELSE IF th.op = "write"
              THEN [released EXCEPT !.pc = "check", !.op = "close"]
              ELSE [released EXCEPT !.pc = "held", !.op = "mount",
                                    !.outer = FALSE]]
        /\ UNCHANGED <<proc, last, steps, stdout_vars, GLOBAL_PROC_is_some,
                       map_vars>>

\* caller t enters write(1, StdoutBuf(t), 2): no lock is taken
EnterWriteStdout(t) ==
    /\ steps < MaxSteps
    /\ thread[t].pc = "idle"
    /\ thread' = [thread EXCEPT ![t] =
                     [IdleThread EXCEPT !.pc = "push", !.op = "write",
                                        !.fd = 1, !.i = 1]]
    /\ steps' = steps + 1
    /\ UNCHANGED <<proc, last, stdout_vars, GLOBAL_PROC_is_some, locked, map_vars>>

\* one round of the loop of the stdout branch: byte i is pushed, and a
\* newline hands the accumulator to the host; after the last byte the call
\* returns count
PushByte(t) ==
    LET th == thread[t]
        buf == StdoutBuf(t)
        s == write_stdout(STDOUT_LINE_ACCUM, <<buf[th.i]>>)
    IN  /\ th.pc = "push"
        /\ STDOUT_LINE_ACCUM' = s.accum
        /\ host_lines' = host_lines \o s.lines
        /\ thread' = [thread EXCEPT ![t] =
                         IF th.i = Len(buf)
                         THEN [th EXCEPT !.pc = "idle", !.ret = Len(buf)]
                         ELSE [th EXCEPT !.i = @ + 1]]
        /\ UNCHANGED <<proc, last, steps, GLOBAL_PROC_is_some, locked, map_vars>>

(***************************************************************************)
(* collections::HashMap on its own: insert and remove, next to the finite  *)
(* map they are to stand for.  At most OPEN_FILES_CAP keys are live.       *)
(***************************************************************************)
HashMapInsert(keys, values) ==
    \E key \in keys, value \in values :
        /\ steps < MaxSteps
        /\ key \in DOMAIN live \/ Cardinality(DOMAIN live) < OPEN_FILES_CAP
        /\ HashMap_entries' = HashMap_insert(HashMap_entries, key, value)
        /\ live' = MapInsert(live, key, value)
        /\ last' = [NoCall EXCEPT !.op = "insert", !.fd = key, !.count = value]
        /\ steps' = steps + 1
        /\ UNCHANGED <<proc, stdout_vars, lock_vars>>

HashMapRemove(keys) ==
    \E key \in keys :
        /\ steps < MaxSteps
        /\ HashMap_entries' = HashMap_remove(HashMap_entries, key)
        /\ live' = MapRemove(live, key)
        /\ last' = [NoCall EXCEPT !.op = "remove", !.fd = key]
        /\ steps' = steps + 1
        /\ UNCHANGED <<proc, stdout_vars, lock_vars>>

Init ==
    /\ proc = Proc_new
    /\ last = NoCall
    /\ steps = 0
    /\ STDOUT_LINE_ACCUM = << >>
    /\ host_lines = << >>
    /\ GLOBAL_PROC_is_some = TRUE
    /\ locked = FALSE
    /\ thread = [t \in Threads |-> IdleThread]
    /\ HashMap_entries = HashMap_new
    /\ live = << >>

(***************************************************************************)
(* The inputs of the calls.                                                *)
(***************************************************************************)
PathA == <<"/", "a">>
PathB == <<"/", "b">>
\* the allocatable descriptors
UserFds == 3..(FdTableLen - 1)
\* with one descriptor past the end of the table
AnyFds == UserFds \cup {FdTableLen}
Bufs == {<<1>>, <<2, 3>>}
Counts == {1, 2}
\* a directory, a file in it, and the file's relative name
PathD == <<"/", "d">>
PathDF == <<"/", "d", "/", "f">>
RelF == <<"f">>
\* the relative name of PathA in the root directory
RelA == <<"a">>
\* PathD with a trailing slash
PathDSlash == <<"/", "d", "/">>
\* a path in the root directory whose name has D_NAME_LEN bytes
PathLong == <<"/">> \o [i \in 1..D_NAME_LEN |-> "x"]
\* two iteration orders of the path index
OrderUp == <<RootPath, PathA, PathB, PathD, PathLong>>
OrderDown == <<PathLong, PathD, PathB, PathA, RootPath>>
\* symlink targets as C strings: "a", "ab", and the byte FF, which is not UTF-8
Targets == {<<97>>, <<97, 98>>, <<255>>}
\* buffers for stdout: "a", "\n", "a\nb", "\n\n"
StdoutBufs == {<<97>>, <<NEWLINE>>, <<97, NEWLINE, 98>>, <<NEWLINE, NEWLINE>>}

(***************************************************************************)
(* Spec: one file, opened in every mode, read and written through several  *)
(* descriptors, which are duplicated and closed.                           *)
(***************************************************************************)
Next ==
    \/ Open({PathA}, {0, O_TRUNC, O_CREAT + O_APPEND, 1 + O_CREAT + O_TRUNC})
    \/ Close(AnyFds)
    \/ Read(AnyFds, Counts)
    \/ Write(AnyFds, Bufs)
    \/ Lseek(AnyFds, {-1, 0}, {0, 1, 2})
    \/ Pread(AnyFds, {2}, {0, 1})
    \/ Pwrite(AnyFds, {<<1>>}, {0, 2})
    \/ Dup(AnyFds)
    \/ Dup2(AnyFds, {0} \cup AnyFds)
    \/ StatCall({PathA})
    \/ Fstat(AnyFds)

Spec == Init /\ [][Next]_vars

(***************************************************************************)
(* SpecCopy: two files, copied into each other and resized.                *)
(***************************************************************************)
NextCopy ==
    \/ Open({PathA, PathB}, {O_CREAT, O_CREAT + O_APPEND})
    \/ Write(UserFds, {<<2, 3>>})
    \/ Pwrite(UserFds, {<<1>>}, {1})
    \/ Sendfile(UserFds, {None, Some(1)}, Counts)
    \/ Splice(UserFds, {None, Some(0)}, {1})
    \/ Truncate({PathA}, {-1, 0, 2})
    \/ Ftruncate(UserFds, {-1, 2})
    \/ Fallocate(UserFds, {1}, {-1, 1})
    \/ Fstat(UserFds)

SpecCopy == Init /\ [][NextCopy]_vars

(***************************************************************************)
(* SpecFd: two files; descriptors are allocated, duplicated, freed and     *)
(* moved.                                                                  *)
(***************************************************************************)
NextFd ==
    \/ Open({PathA, PathB}, {0, O_CREAT, O_CREAT + O_TRUNC})
    \/ Close(UserFds)
    \/ Dup(UserFds)
    \/ Write(UserFds, {<<1>>})
    \/ Lseek(UserFds, {-1, 2}, {0, 1, 2, 3})

SpecFd == Init /\ [][NextFd]_vars

(***************************************************************************)
(* SpecDir: a directory is made and removed, entered, and a file is        *)
(* created in it by its absolute and by its relative name, under several   *)
(* creation masks.                                                         *)
(***************************************************************************)
NextDir ==
    \/ Mkdir({PathD}, {493, 1023})
    \/ Rmdir({PathD, PathDF})
    \/ Chdir({RootPath, PathD})
    \/ Open({PathDF, RelF}, {0, O_CREAT})
    \/ Umask({0, 575})
    \/ StatCall({PathD, RelF})

SpecDir == Init /\ [][NextDir]_vars

(***************************************************************************)
(* SpecLink: a file is created, written, given a second name, renamed and  *)
(* unlinked, by its absolute and by its relative name.                     *)
(***************************************************************************)
NextLink ==
    \/ Open({PathA, RelA}, {0, O_CREAT})
    \/ Write(UserFds, {<<1>>})
    \/ Link({PathA, RelA}, {PathA, PathB})
    \/ Rename({PathA, RelA}, {PathA, PathB})
    \/ Unlink({RelA, PathB, RootPath})
    \/ StatCall({PathA, PathB})

SpecLink == Init /\ [][NextLink]_vars

(***************************************************************************)
(* SpecSym: symbolic links are made, over files and directories too, and   *)
(* read back into buffers of several sizes.                                *)
(***************************************************************************)
NextSym ==
    \/ Symlink(Targets, {PathA, RelA, PathB})
    \/ Readlink({PathA, RelA, PathB, RootPath}, {0, 1, 4})
    \/ Open({PathB}, {O_CREAT})
    \/ Unlink({PathA})
    \/ StatCall({PathA, PathB})

SpecSym == Init /\ [][NextSym]_vars

(***************************************************************************)
(* SpecDents: the root directory gets a file, a directory, a symbolic link *)
(* and an entry with a long name, and is listed through a descriptor into  *)
(* buffers of one record, two records, and less than a record.             *)
(***************************************************************************)
NextDents ==
    \/ Mkdir({PathD, PathLong}, {493})
    \/ Rmdir({PathD})
    \/ Symlink({<<97>>}, {PathB, PathD})
    \/ Open({RootPath, PathA, PathD}, {O_CREAT})
    \/ Getdents(UserFds, {size_of_Dirent, 2 * size_of_Dirent, 100},
                {OrderUp, OrderDown})

SpecDents == Init /\ [][NextDents]_vars

(***************************************************************************)
(* SpecCwd: a directory and a file are made, opened and removed, and the   *)
(* working directory is moved by path and by descriptor.                   *)
(***************************************************************************)
NextCwd ==
    \/ Mkdir({PathD}, {493})
    \/ Open({PathD, PathA}, {0, O_CREAT})
    \/ Rmdir({PathD})
    \/ Link({PathD}, {PathB})
    \/ Chdir({PathD, PathA, RelA})
    \/ Fchdir(AnyFds, {OrderUp, OrderDown})

SpecCwd == Init /\ [][NextCwd]_vars

(***************************************************************************)
(* SpecTree: every call that changes the path index, on the root, on a     *)
(* file, on a directory named with and without a trailing slash.           *)
(***************************************************************************)
NextTree ==
    \/ Open({RootPath, PathA}, {O_CREAT, O_TRUNC})
    \/ Close(UserFds)
    \/ Dup2(UserFds, UserFds)
    \/ Mkdir({PathD, PathDSlash}, {493})
    \/ Rmdir({RootPath, PathD})
    \/ Rename({RootPath, PathA}, {PathB})
    \/ Link({PathA}, {RootPath, PathB})
    \/ Symlink({<<97>>}, {RootPath, PathB})
    \/ Unlink({RootPath, PathA})

SpecTree == Init /\ [][NextTree]_vars

(***************************************************************************)
(* SpecDirData: directories opened like files, then written and resized.   *)
(***************************************************************************)
NextDirData ==
    \/ Mkdir({PathD}, {493})
    \/ Open({RootPath, PathA}, {O_CREAT})
    \/ Write(UserFds, {<<1>>})
    \/ Pwrite(UserFds, {<<1>>}, {1})
    \/ Truncate({PathD}, {0, 2})
    \/ Ftruncate(UserFds, {2})
    \/ Fallocate(UserFds, {0}, {1})
    \/ Sendfile(UserFds, {None}, {1})
    \/ Splice(UserFds, {None}, {1})

SpecDirData == Init /\ [][NextDirData]_vars

(***************************************************************************)
(* SpecStdout: writes on descriptor 1, between writes on a file.           *)
(***************************************************************************)
NextStdout ==
    \/ Write({1}, StdoutBufs)
    \/ Open({PathA}, {O_CREAT})
    \/ Write(UserFds, {<<97, NEWLINE>>})

SpecStdout == Init /\ [][NextStdout]_vars

(***************************************************************************)
(* SpecThreads: two callers from the start of the program, before          *)
(* GLOBAL_PROC is set; SpecThreadsFair lets every step that can be taken   *)
(* be taken.                                                               *)
(***************************************************************************)
InitThreads ==
    /\ proc = Proc_new
    /\ last = NoCall
    /\ steps = 0
    /\ STDOUT_LINE_ACCUM = << >>
    /\ host_lines = << >>
    /\ GLOBAL_PROC_is_some = FALSE
    /\ locked = FALSE
    /\ thread = [t \in Threads |-> IdleThread]
    /\ HashMap_entries = HashMap_new
    /\ live = << >>

NextThreads ==
    \E t \in Threads :
        \/ Enter(t, {"open", "close", "mount"})
        \/ get_or_init_proc_check(t)
        \/ get_or_init_proc_init(t)
        \/ Mutex_lock(t)
        \/ Body(t)
        \/ MutexGuard_drop(t)

SpecThreads == InitThreads /\ [][NextThreads]_vars

SpecThreadsFair == SpecThreads /\ WF_vars(NextThreads)

(***************************************************************************)
(* SpecStdoutThreads: two callers write a line each on descriptor 1.       *)
(***************************************************************************)
NextStdoutThreads ==
    \E t \in Threads :
        \/ EnterWriteStdout(t)
        \/ PushByte(t)

SpecStdoutThreads == InitThreads /\ [][NextStdoutThreads]_vars

(***************************************************************************)
(* SpecMap: a collections::HashMap of OPEN_FILES_CAP slots.                *)
(***************************************************************************)
NextMap ==
    \/ HashMapInsert({3, 4, 5}, {1, 2})
    \/ HashMapRemove({3, 4, 5})

SpecMap == Init /\ [][NextMap]_vars

(***************************************************************************)
(* What the claims speak of.                                               *)
(***************************************************************************)
\* the handle of fd, if any
Handle(p, fd) == HashMap_get(p.open_files, fd)

\* fd is Open(position, append): its slot is set and it has a handle
IsOpen(p, fd) == IsSome(fd_slot(p, fd)) /\ IsSome(Handle(p, fd))

\* fd is Closed: its slot is unused
IsClosed(p, fd) == fd_slot(p, fd) = None

Position(p, fd) == Unwrap(Handle(p, fd)).position
InodeOf(p, fd) == Unwrap(Handle(p, fd)).inode_number
Payload(p, n) == p.fs.files[n]
InodeSize(p, n) == p.fs.inodes[n + 1].size
InodeNumbers(p) == 0..(Len(p.fs.inodes) - 1)

(***************************************************************************)
(* C1: after every system call, every inode of kind File has a size equal  *)
(* to the length of its payload.  The code breaks this: open with O_TRUNC  *)
(* clears the payload and leaves inode.size, and sendfile and splice grow  *)
(* the output payload and leave inode.size.                                *)
(***************************************************************************)
C1_SizeIsPayloadLength ==
    \A n \in InodeNumbers(proc) :
        proc.fs.inodes[n + 1].kind = "File" =>
            /\ n \in DOMAIN proc.fs.files
            /\ InodeSize(proc, n) = Len(Payload(proc, n))

(***************************************************************************)
(* C2: on an open descriptor fd >= 3, write(fd, data, n) followed by       *)
(* lseek(fd, -n, SEEK_CUR) and read(fd, buf, n) returns n with             *)
(* buf == data; and after creat(p); write(fd, data, n); close(fd), a fresh *)
(* open(p, O_RDONLY) reads the same n bytes from position 0 and            *)
(* stat(p).st_size == n.  The second half fails when creat returns a       *)
(* descriptor whose handle was dropped by the full handle map.             *)
(***************************************************************************)
CreatFlags == 1 + O_CREAT + O_TRUNC

C2_WriteSeekRead ==
    (last'.op = "write" /\ last'.fd >= 3 /\ IsOpen(proc, last'.fd)) =>
        LET n == Len(last'.buf)
            s == wasm_vfs_lseek(proc', last'.fd, -n, 1)
            r == wasm_vfs_read(s.proc, last'.fd, n)
        IN  /\ last'.ret = n
            /\ r.ret = n
            /\ r.out = last'.buf

C2_CreatWriteCloseOpenRead ==
    (last'.op = "open" /\ last'.flags = CreatFlags /\ last'.ret >= 3) =>
        \A data \in Bufs :
            LET n == Len(data)
                fd == last'.ret
                w == wasm_vfs_write(proc', fd, data)
                c == wasm_vfs_close(w.proc, fd)
                o == wasm_vfs_open(c.proc, last'.path, 0, 0)
                r == wasm_vfs_read(o.proc, o.ret, n)
                t == wasm_vfs_stat(r.proc, last'.path)
            IN  /\ w.ret = n
                /\ c.ret = 0
                /\ o.ret >= 3
                /\ r.ret = n
                /\ r.out = data
                /\ t.ret = 0
                /\ t.st.st_size = n

C2_RoundTrip ==
    [][C2_WriteSeekRead /\ C2_CreatWriteCloseOpenRead]_vars

(***************************************************************************)
(* C3: a descriptor opened with O_APPEND starts at the payload length and  *)
(* keeps its append flag; every write through it starts at the payload     *)
(* length current at that write, whatever the handle's position and        *)
(* whatever other descriptors wrote: the payload afterwards is the prior   *)
(* payload followed by the buffer, and the handle's position is the        *)
(* payload length.                                                         *)
(***************************************************************************)
C3_OpenAppend ==
    (/\ last'.op = "open"
     /\ HasFlag(last'.flags, O_APPEND)
     /\ last'.ret >= 0
     /\ IsOpen(proc', last'.ret)) =>
        /\ Unwrap(Handle(proc', last'.ret)).append_mode
        /\ Position(proc', last'.ret)
               = Len(Payload(proc', InodeOf(proc', last'.ret)))

C3_AppendWrite ==
    (/\ last'.op = "write"
     /\ IsOpen(proc, last'.fd)
     /\ Unwrap(Handle(proc, last'.fd)).append_mode) =>
        LET n == InodeOf(proc, last'.fd)
        IN  /\ last'.ret = Len(last'.buf)
            /\ Payload(proc', n) = Payload(proc, n) \o last'.buf
            /\ Position(proc', last'.fd) = Len(Payload(proc', n))
            /\ InodeSize(proc', n) = Len(Payload(proc', n))

\* the flag stays with the handle: only dup2 onto fd gives fd another handle
C3_FlagKept ==
    \A fd \in 0..(FdTableLen - 1) :
        (/\ IsOpen(proc, fd)
         /\ IsOpen(proc', fd)
         /\ ~(last'.op = "dup2" /\ last'.fd2 = fd)) =>
            Unwrap(Handle(proc', fd)).append_mode
                = Unwrap(Handle(proc, fd)).append_mode

C3_AppendWritesGoToEnd ==
    [][C3_OpenAppend /\ C3_AppendWrite /\ C3_FlagKept]_vars

\* an append write through fd landed after a byte written through another
\* descriptor of the same file, while fd's own position was still 0
C3_Witness ==
    /\ last.op = "write"
    /\ last.buf = <<2, 3>>
    /\ last.ret = 2
    /\ IsOpen(proc, last.fd)
    /\ Unwrap(Handle(proc, last.fd)).append_mode
    /\ Payload(proc, InodeOf(proc, last.fd)) = <<1, 2, 3>>
    /\ Position(proc, last.fd) = 3
    /\ \E g \in UserFds :
           /\ g # last.fd
           /\ IsOpen(proc, g)
           /\ InodeOf(proc, g) = InodeOf(proc, last.fd)
           /\ ~Unwrap(Handle(proc, g)).append_mode
           /\ Position(proc, g) = 1
    /\ steps = 4

(***************************************************************************)
(* C4: when open with O_TRUNC returns on an existing file with a non-empty *)
(* payload, the payload is empty, the inode's size is 0 and stat on the    *)
(* path reports st_size 0.  The code clears the payload only.              *)
(***************************************************************************)
C4_TruncCase ==
    /\ last'.op = "open"
    /\ HasFlag(last'.flags, O_TRUNC)
    /\ last'.ret >= 0
    /\ IsSome(lookup_inode_by_path(proc.fs, last'.path))
    /\ Len(Payload(proc, Unwrap(lookup_inode_by_path(proc.fs, last'.path)))) > 0

C4_TruncSetsSizeZero ==
    [][C4_TruncCase =>
        LET n == Unwrap(lookup_inode_by_path(proc.fs, last'.path))
        IN  /\ Payload(proc', n) = << >>
            /\ InodeSize(proc', n) = 0
            /\ wasm_vfs_stat(proc', last'.path).st.st_size = 0]_vars

(***************************************************************************)
(* C5: after a sendfile or splice that extends the output file's payload,  *)
(* the output inode's size is the new payload length, and fstat on the     *)
(* output descriptor reports it.  The code never touches the output        *)
(* inode's size in either call.                                            *)
(***************************************************************************)
C5_ExtendCase ==
    /\ last'.op \in {"sendfile", "splice"}
    /\ last'.ret > 0
    /\ IsOpen(proc, last'.fd2)
    /\ Len(Payload(proc', InodeOf(proc, last'.fd2)))
           > Len(Payload(proc, InodeOf(proc, last'.fd2)))

C5_CopyUpdatesOutputSize ==
    [][C5_ExtendCase =>
        LET n == InodeOf(proc, last'.fd2)
        IN  /\ InodeSize(proc', n) = Len(Payload(proc', n))
            /\ wasm_vfs_fstat(proc', last'.fd2).st.st_size
                   = Len(Payload(proc', n))]_vars

(***************************************************************************)
(* C6: sendfile(out_fd, in_fd, offset_ptr, count) on two open descriptors  *)
(* copies copied = min(count, input_size - start) bytes, start being       *)
(* *offset_ptr when the pointer is present and in_fd's position otherwise. *)
(* With the pointer, in_fd's position is unchanged and *offset_ptr grows   *)
(* by copied; without it in_fd's position grows by copied.  out_fd's       *)
(* position becomes its effective write position plus copied.  The call    *)
(* returns copied; it returns 0 and changes nothing when                   *)
(* start >= input_size.                                                    *)
(***************************************************************************)
C6_Case ==
    /\ last'.op = "sendfile"
    /\ IsOpen(proc, last'.fd)
    /\ IsOpen(proc, last'.fd2)

C6_start ==
    IF IsSome(last'.off_in) THEN Unwrap(last'.off_in)
                            ELSE Position(proc, last'.fd)

C6_input == Payload(proc, InodeOf(proc, last'.fd))

C6_copied == MinOf(last'.count, Len(C6_input) - C6_start)

\* where the output is written: the end of the payload in append mode
C6_effective ==
    IF Unwrap(Handle(proc, last'.fd2)).append_mode
    THEN Len(Payload(proc, InodeOf(proc, last'.fd2)))
    ELSE Position(proc, last'.fd2)

C6_NothingToCopy ==
    /\ last'.ret = 0
    /\ proc' = proc
    /\ last'.off_in_after = last'.off_in

C6_Copies ==
    /\ last'.ret = C6_copied
    /\ VecSlice(Payload(proc', InodeOf(proc, last'.fd2)), C6_effective, C6_copied)
           = VecSlice(C6_input, C6_start, C6_copied)
    /\ IsSome(last'.off_in) =>
           last'.off_in_after = Some(C6_start + C6_copied)

C6_InputPosition ==
    Position(proc', last'.fd) =
        IF IsSome(last'.off_in) THEN Position(proc, last'.fd)
                                ELSE Position(proc, last'.fd) + C6_copied

C6_OutputPosition ==
    Position(proc', last'.fd2) = C6_effective + C6_copied

\* as stated: the rule for in_fd's position holds for every pair of
\* descriptors, in_fd = out_fd included
C6_SendfileAsStated ==
    [][C6_Case =>
        IF C6_start >= Len(C6_input)
        THEN C6_NothingToCopy
        ELSE C6_Copies /\ C6_InputPosition /\ C6_OutputPosition]_vars

\* C6, amended: the rule for in_fd's position is for in_fd # out_fd; when the
\* two are the same descriptor, the rule for out_fd's position decides
C6_SendfileDistinct ==
    [][C6_Case =>
        IF C6_start >= Len(C6_input)
        THEN C6_NothingToCopy
        ELSE /\ C6_Copies
             /\ last'.fd # last'.fd2 => C6_InputPosition
             /\ C6_OutputPosition]_vars

\* a copy between two descriptors with an offset pointer, cut short by the
\* end of the input
C6_Witness ==
    /\ last.op = "sendfile"
    /\ last.fd # last.fd2
    /\ IsOpen(proc, last.fd)
    /\ IsOpen(proc, last.fd2)
    /\ last.off_in = Some(1)
    /\ last.off_in_after = Some(2)
    /\ last.count = 2
    /\ last.ret = 1
    /\ Position(proc, last.fd) = 2
    /\ Position(proc, last.fd2) = 1

(***************************************************************************)
(* C7: dup(fd) on an open descriptor returns a new descriptor whose handle *)
(* has fd's inode, position and append flag.  From then on a read, write   *)
(* or lseek on one descriptor leaves every other handle as it was, and     *)
(* closing one leaves the others open and usable.  The first part fails    *)
(* when the handle map is full: the new descriptor gets a slot and no      *)
(* handle.                                                                 *)
(***************************************************************************)
C7_DupCopies ==
    (last'.op = "dup" /\ IsOpen(proc, last'.fd) /\ last'.ret >= 0) =>
        /\ last'.ret # last'.fd
        /\ IsClosed(proc, last'.ret)
        /\ IsOpen(proc', last'.ret)
        /\ Handle(proc', last'.ret) = Handle(proc, last'.fd)
        /\ Handle(proc', last'.fd) = Handle(proc, last'.fd)

C7_Independent ==
    last'.op \in {"read", "write", "lseek"} =>
        \A g \in 0..(FdTableLen - 1) :
            (g # last'.fd /\ IsOpen(proc, g)) =>
                Handle(proc', g) = Handle(proc, g)

C7_CloseLeavesOthers ==
    last'.op = "close" =>
        \A g \in 0..(FdTableLen - 1) :
            (g # last'.fd /\ IsOpen(proc, g)) =>
                /\ IsOpen(proc', g)
                /\ Handle(proc', g) = Handle(proc, g)
                /\ wasm_vfs_lseek(proc', g, 0, 1).ret = Position(proc, g)

C7_DupIndependent ==
    [][C7_DupCopies /\ C7_Independent /\ C7_CloseLeavesOthers]_vars

(***************************************************************************)
(* C8: pread and pwrite on an open descriptor leave the handle's position  *)
(* unchanged: lseek(fd, 0, SEEK_CUR) afterwards returns the position from  *)
(* before the call.  pwrite(fd, data, n, off) returns n, grows the payload *)
(* to at least off + n and sets the inode size to the payload length, and  *)
(* pread(fd, buf, n, off) after it returns n with buf == data.             *)
(***************************************************************************)
C8_Pread ==
    (last'.op = "pread" /\ IsOpen(proc, last'.fd)) =>
        /\ Handle(proc', last'.fd) = Handle(proc, last'.fd)
        /\ wasm_vfs_lseek(proc', last'.fd, 0, 1).ret = Position(proc, last'.fd)

C8_Pwrite ==
    (last'.op = "pwrite" /\ IsOpen(proc, last'.fd)) =>
        LET n == Len(last'.buf)
            i == InodeOf(proc, last'.fd)
            r == wasm_vfs_pread64(proc', last'.fd, n, last'.offset)
        IN  /\ last'.ret = n
            /\ Handle(proc', last'.fd) = Handle(proc, last'.fd)
            /\ wasm_vfs_lseek(proc', last'.fd, 0, 1).ret
                   = Position(proc, last'.fd)
            /\ Len(Payload(proc', i)) >= last'.offset + n
            /\ Len(Payload(proc', i)) >= Len(Payload(proc, i))
            /\ InodeSize(proc', i) = Len(Payload(proc', i))
            /\ r.ret = n
            /\ r.out = last'.buf

C8_PositionalIO ==
    [][C8_Pread /\ C8_Pwrite]_vars

\* a pwrite past the end of an empty file through a handle at position 0
C8_Witness ==
    /\ last.op = "pwrite"
    /\ last.offset = 2
    /\ last.buf = <<1>>
    /\ last.ret = 1
    /\ IsOpen(proc, last.fd)
    /\ Position(proc, last.fd) = 0
    /\ Payload(proc, InodeOf(proc, last.fd)) = <<0, 0, 1>>
    /\ InodeSize(proc, InodeOf(proc, last.fd)) = 3

(***************************************************************************)
(* C9: dup2(oldfd, newfd) with oldfd open and newfd in range makes newfd   *)
(* an open descriptor whose handle has oldfd's inode, position and append  *)
(* flag, in place of any handle newfd had; it returns newfd and leaves     *)
(* oldfd's handle as it was.  With oldfd = newfd open it changes nothing   *)
(* and returns newfd.  With oldfd not open, or either descriptor out of    *)
(* range, it returns -1 and changes nothing.  The first part fails when    *)
(* newfd was closed and the handle map is full, the last when oldfd has a  *)
(* slot and no handle.                                                     *)
(***************************************************************************)
C9_Copies ==
    (/\ last'.op = "dup2"
     /\ IsOpen(proc, last'.fd)
     /\ InRange(last'.fd2)
     /\ last'.fd # last'.fd2) =>
        /\ last'.ret = last'.fd2
        /\ IsOpen(proc', last'.fd2)
        /\ Handle(proc', last'.fd2) = Handle(proc, last'.fd)
        /\ Handle(proc', last'.fd) = Handle(proc, last'.fd)

C9_SameDescriptor ==
    (/\ last'.op = "dup2"
     /\ IsOpen(proc, last'.fd)
     /\ last'.fd = last'.fd2) =>
        /\ last'.ret = last'.fd2
        /\ proc' = proc

C9_Fails ==
    (/\ last'.op = "dup2"
     /\ \/ ~IsOpen(proc, last'.fd)
        \/ ~InRange(last'.fd)
        \/ ~InRange(last'.fd2)) =>
        /\ last'.ret = -1
        /\ proc' = proc

C9_Dup2 ==
    [][C9_Copies /\ C9_SameDescriptor /\ C9_Fails]_vars

(***************************************************************************)
(* C10: on a descriptor fd >= 3 that is not open, read, write, lseek,      *)
(* pread, pwrite, dup, dup2(fd, x), fstat and close return -1 and change   *)
(* no state; close of a descriptor in use returns 0 and frees it, and a    *)
(* second close of it returns -1.                                          *)
(***************************************************************************)
C10_Ops ==
    {"read", "write", "lseek", "pread", "pwrite", "dup", "dup2", "fstat",
     "close"}

C10_NotOpenFails ==
    (last'.op \in C10_Ops /\ last'.fd >= 3 /\ IsClosed(proc, last'.fd)) =>
        /\ last'.ret = -1
        /\ proc' = proc

C10_CloseOnce ==
    (last'.op = "close" /\ last'.fd >= 3 /\ ~IsClosed(proc, last'.fd)) =>
        /\ last'.ret = 0
        /\ IsClosed(proc', last'.fd)
        /\ Handle(proc', last'.fd) = None
        /\ wasm_vfs_close(proc', last'.fd).ret = -1
        /\ wasm_vfs_close(proc', last'.fd).proc = proc'

C11_Smallest ==
    (last'.op \in {"open", "dup"} /\ last'.ret >= 0) =>
        /\ last'.ret >= 3
        /\ InRange(last'.ret)
        /\ IsClosed(proc, last'.ret)
        /\ ~IsClosed(proc', last'.ret)
        /\ \A i \in 3..(last'.ret - 1) : ~IsClosed(proc, i)

C11_Exhausted ==
    (/\ last'.op \in {"open", "dup"}
     /\ \A i \in 3..(FdTableLen - 1) : ~IsClosed(proc, i)) =>
        last'.ret = -1

C11_LowestFreeDescriptor ==
    [][C11_Smallest /\ C11_Exhausted]_vars

\* open returned descriptor 3 while 4 is in use: 3 was allocated before 4,
\* freed by a close, and is taken again
C11_Witness ==
    /\ last.op = "open"
    /\ last.ret = 3
    /\ ~IsClosed(proc, 4)
    /\ IsOpen(proc, 3)

(***************************************************************************)
(* C12: whenever open returns -1, the path index, the inode table,         *)
(* next_inode_number, the file payloads and the FD table are as before     *)
(* the call.  The code creates the file and truncates before it looks for  *)
(* a free descriptor, so an open that fails for lack of a descriptor has   *)
(* already created or emptied the file.                                    *)
(***************************************************************************)
C12_FailedOpenChangesNothing ==
    [][(last'.op = "open" /\ last'.ret = -1) =>
        /\ proc'.fs.path_map = proc.fs.path_map
        /\ proc'.fs.inodes = proc.fs.inodes
        /\ proc'.fs.next_inode_number = proc.fs.next_inode_number
        /\ proc'.fs.files = proc.fs.files
        /\ proc'.fd_table = proc.fd_table]_vars

(***************************************************************************)
(* C13.  open and relative paths.                                          *)
(***************************************************************************)
\* a successful chdir, then open of a relative path with O_CREAT succeeds
C13_Case ==
    /\ last.op = "chdir" /\ last.ret = 0
    /\ last'.op = "open" /\ last'.ret >= 0
    /\ ~is_absolute(last'.path) /\ HasFlag(last'.flags, O_CREAT)

\* the working directory joined with the relative path
C13_joined == join(proc.fs.current_directory, last'.path)

\* C13: after chdir(d) succeeds, open(r, O_CREAT) for a relative r registers
\* and opens the path d joined with r: the descriptor is bound to the inode
\* that the path index holds for d/r, which is the inode stat resolves for r
\* and for d/r and the entry unlink removes for r.
C13_OpenResolvesRelative ==
    [][C13_Case =>
          LET n == fd_slot(proc', last'.ret)
              by_rel == wasm_vfs_stat(proc', last'.path)
              by_abs == wasm_vfs_stat(proc', C13_joined)
          IN  /\ IsSome(n)
              /\ lookup_inode_by_path(proc'.fs, C13_joined) = n
              /\ by_rel.ret = 0 /\ by_rel.st.st_ino = Unwrap(n)
              /\ by_abs.ret = 0 /\ by_abs.st.st_ino = Unwrap(n)
              /\ wasm_vfs_unlink(proc', last'.path).ret = 0]_vars

(***************************************************************************)
(* C14: lseek(fd, off, whence) on an open descriptor computes off,         *)
(* position + off or payload length + off for whence 0, 1, 2.  A result    *)
(* >= 0 becomes the handle's position and is returned, also beyond the end *)
(* of the payload, and the payload and the inode size stay as they were.   *)
(* A negative result, or a whence other than 0, 1, 2, gives -1 and leaves  *)
(* the position unchanged.                                                 *)
(***************************************************************************)
C14_Case == last'.op = "lseek" /\ IsOpen(proc, last'.fd)

C14_result ==
    CASE last'.whence = 0 -> last'.offset
      [] last'.whence = 1 -> Position(proc, last'.fd) + last'.offset
      [] last'.whence = 2 ->
             Len(Payload(proc, InodeOf(proc, last'.fd))) + last'.offset
      [] OTHER -> -1

C14_Seeks ==
    /\ last'.ret = C14_result
    /\ Position(proc', last'.fd) = C14_result
    /\ proc'.fs = proc.fs
    /\ proc'.fd_table = proc.fd_table
    /\ \A g \in 0..(FdTableLen - 1) :
           g # last'.fd => Handle(proc', g) = Handle(proc, g)

C14_Refuses ==
    /\ last'.ret = -1
    /\ proc' = proc

C15_path == get_absolute_path(proc, last'.path)

\* the path resolves to an inode that is not a directory
C15_NonDirectory ==
    /\ C15_path \in DOMAIN proc.fs.path_map
    /\ proc.fs.inodes[proc.fs.path_map[C15_path] + 1].kind # "Directory"

\* the descriptors opened on the inode of the path before the unlink
C15_fds ==
    {fd \in UserFds : IsOpen(proc, fd)
                      /\ InodeOf(proc, fd) = proc.fs.path_map[C15_path]}

\* only the entry goes; descriptors read and write as before; the path no
\* longer resolves
C15_Removes ==
    /\ last'.ret = 0
    /\ DOMAIN proc'.fs.path_map = DOMAIN proc.fs.path_map \ {C15_path}
    /\ \A q \in DOMAIN proc'.fs.path_map :
          proc'.fs.path_map[q] = proc.fs.path_map[q]
    /\ proc'.fs.inodes = proc.fs.inodes
    /\ proc'.fs.files = proc.fs.files
    /\ \A fd \in C15_fds :
          LET n == InodeOf(proc, fd)
              r == wasm_vfs_read(proc', fd, 1)
              w == wasm_vfs_write(proc', fd, <<9>>)
          IN  /\ IsOpen(proc', fd) /\ InodeOf(proc', fd) = n
              /\ r.ret = wasm_vfs_read(proc, fd, 1).ret
              /\ r.out = wasm_vfs_read(proc, fd, 1).out
              /\ w.ret = 1
              /\ w.proc.fs.files[n] = wasm_vfs_write(proc, fd, <<9>>).proc.fs.files[n]
    /\ wasm_vfs_stat(proc', last'.path).ret = -1
    /\ wasm_vfs_open(proc', last'.path, 0, 420).ret = -1

\* C15: unlink(p) of a path that resolves to a non-directory removes only the
\* entry p of the path index: the inode and its payload remain, a descriptor
\* opened before still reads and writes the payload, and stat(p) and open(p)
\* without O_CREAT fail afterwards; unlink of a directory or of an absent path
\* returns -1 and changes nothing.
C15_Unlink ==
    [][last'.op = "unlink" =>
          IF C15_NonDirectory THEN C15_Removes
          ELSE last'.ret = -1 /\ proc' = proc]_vars

(***************************************************************************)
(* C16.  link.                                                             *)
(***************************************************************************)
\* the paths link is called on, resolved
C16_a == get_absolute_path(proc, last'.path)
C16_b == get_absolute_path(proc, last'.path2)

\* both names resolve to one inode
C16_SameInode ==
    LET sa == wasm_vfs_stat(proc', last'.path)
        sb == wasm_vfs_stat(proc', last'.path2)
    IN  /\ lookup_inode_by_path(proc'.fs, C16_a) =
               lookup_inode_by_path(proc'.fs, C16_b)
        /\ sa.ret = 0 /\ sb.ret = 0 /\ sa.st.st_ino = sb.st.st_ino

\* p after close of every descriptor from fd on
RECURSIVE C16_closed(_, _)
C16_closed(p, fd) ==
    IF fd >= FdTableLen THEN p
    ELSE C16_closed(wasm_vfs_close(p, fd).proc, fd + 1)

\* a byte written through a descriptor opened on from is read through a
\* descriptor opened on to (the descriptors of the run are closed first, so
\* that both opens get a descriptor and a handle)
C16_Shared(from, to) ==
    LET o1 == wasm_vfs_open(C16_closed(proc', 3), from, 0, 420)
        o2 == wasm_vfs_open(o1.proc, to, 0, 420)
    IN  (/\ o1.ret >= 0 /\ o2.ret >= 0
         /\ IsOpen(o2.proc, o1.ret) /\ IsOpen(o2.proc, o2.ret)) =>
            LET w == wasm_vfs_write(o2.proc, o1.ret, <<9>>)
                r == wasm_vfs_read(w.proc, o2.ret, 1)
            IN  w.ret = 1 /\ r.ret = 1 /\ r.out = <<9>>

\* after unlink of the old name the new one still resolves, to the same inode
C16_SurvivesUnlink ==
    LET before == wasm_vfs_stat(proc', last'.path2)
        u == wasm_vfs_unlink(proc', last'.path)
        after == wasm_vfs_stat(u.proc, last'.path2)
    IN  /\ after.ret = 0
        /\ after.st.st_ino = before.st.st_ino
        /\ after.st.st_size = before.st.st_size

\* C16: after link(a, b) succeeds a and b resolve to the same inode, bytes
\* written through a descriptor opened on one are read through a descriptor
\* opened on the other, and after unlink(a) stat(b) still succeeds with the
\* same st_ino and st_size; link with a absent returns -1 and leaves the path
\* index unchanged.
C16_Link ==
    [][last'.op = "link" =>
          /\ last'.ret = 0 =>
                /\ C16_SameInode
                /\ C16_Shared(last'.path, last'.path2)
                /\ C16_Shared(last'.path2, last'.path)
                /\ C16_SurvivesUnlink
          /\ C16_a \notin DOMAIN proc.fs.path_map =>
                last'.ret = -1 /\ proc'.fs.path_map = proc.fs.path_map]_vars

(***************************************************************************)
(* C17.  rename.                                                           *)
(***************************************************************************)
\* the paths rename is called on, resolved
C17_a == get_absolute_path(proc, last'.path)
C17_b == get_absolute_path(proc, last'.path2)

\* the new name resolves to the inode the old one had; the old one is gone
C17_Moves ==
    LET before == wasm_vfs_stat(proc, last'.path)
        after == wasm_vfs_stat(proc', last'.path2)
    IN  /\ last'.ret = 0
        /\ lookup_inode_by_path(proc'.fs, C17_b) = Some(proc.fs.path_map[C17_a])
        /\ before.ret = 0 /\ after.ret = 0
        /\ after.st.st_ino = before.st.st_ino
        /\ C17_a # C17_b => wasm_vfs_stat(proc', last'.path).ret = -1
        /\ proc'.fs.files = proc.fs.files
        /\ proc'.fs.inodes = proc.fs.inodes
        /\ proc'.fd_table = proc.fd_table
        /\ proc'.open_files = proc.open_files

\* C17: rename(a, b) with a in the path index makes b resolve to the inode a
\* had (stat(a).st_ino before is stat(b).st_ino after), makes stat(a) fail when
\* a and b differ, and leaves payloads, sizes and open descriptors as they
\* were; rename with a absent returns -1 and leaves the path index unchanged.
C17_Rename ==
    [][last'.op = "rename" =>
          IF C17_a \in DOMAIN proc.fs.path_map THEN C17_Moves
          ELSE last'.ret = -1 /\ proc'.fs.path_map = proc.fs.path_map]_vars

\* /a, written through descriptor 3, was renamed to /b: /a is gone, /b is the
\* inode of descriptor 3 with its byte
C17_Witness ==
    /\ last.op = "rename" /\ last.ret = 0
    /\ get_absolute_path(proc, last.path) = PathA /\ last.path2 = PathB
    /\ lookup_inode_by_path(proc.fs, PathA) = None
    /\ IsOpen(proc, 3)
    /\ lookup_inode_by_path(proc.fs, PathB) = Some(InodeOf(proc, 3))
    /\ Payload(proc, InodeOf(proc, 3)) = <<1>>

(***************************************************************************)
(* C18.  mkdir then rmdir.                                                 *)
(***************************************************************************)
\* C18: for a path p that is not in the path index, mkdir(p, mode) returns 0,
\* rmdir(p) after it returns 0, and the path index is then what it was before
\* the mkdir.
C18_MkdirRmdirIdentity ==
    [][(/\ last'.op = "mkdir"
        /\ lookup_inode_by_path(proc.fs,
                                get_absolute_path(proc, last'.path)) = None) =>
          LET r == wasm_vfs_rmdir(proc', last'.path)
          IN  /\ last'.ret = 0
              /\ r.ret = 0
              /\ r.proc.fs.path_map = proc.fs.path_map]_vars

(***************************************************************************)
(* C19.  rmdir.                                                            *)
(***************************************************************************)
\* the path rmdir is called on, resolved
C19_path == get_absolute_path(proc, last'.path)

\* the path is absent, or not a directory, or some entry has it as parent()
C19_Refused ==
    \/ C19_path \notin DOMAIN proc.fs.path_map
    \/ proc.fs.inodes[proc.fs.path_map[C19_path] + 1].kind # "Directory"
    \/ \E q \in DOMAIN proc.fs.path_map : parent(q) = Some(C19_path)

\* C19: rmdir(p) returns -1 and leaves the path index unchanged when p is
\* absent, is not a directory, or is the parent() of some entry of the path
\* index; otherwise it returns 0 and removes exactly the entry p.
C19_Rmdir ==
    [][last'.op = "rmdir" =>
          IF C19_Refused
          THEN last'.ret = -1 /\ proc'.fs.path_map = proc.fs.path_map
          ELSE /\ last'.ret = 0
               /\ DOMAIN proc'.fs.path_map =
                      DOMAIN proc.fs.path_map \ {C19_path}
               /\ \A q \in DOMAIN proc'.fs.path_map :
                      proc'.fs.path_map[q] = proc.fs.path_map[q]]_vars

\* rmdir(/d) was refused with /d/f in the index: both still resolve
C19_Witness ==
    /\ last.op = "rmdir" /\ last.path = PathD /\ last.ret = -1
    /\ PathD \in DOMAIN proc.fs.path_map
    /\ proc.fs.inodes[proc.fs.path_map[PathD] + 1].kind = "Directory"
    /\ PathDF \in DOMAIN proc.fs.path_map

(***************************************************************************)
(* C20.  umask and mkdir.                                                  *)
(***************************************************************************)
\* the nine permission bits
C20_PermBits == {1, 2, 4, 8, 16, 32, 64, 128, 256}

\* the mask installed before the step: that of the call before, 0o022 at start
C20_Umask ==
    /\ (last.op = "init" /\ last'.op = "umask") => last'.ret = 18
    /\ (last.op = "umask" /\ last'.op = "umask") => last'.ret = last.mode % 512
    /\ last'.op = "umask" =>
          last'.ret = proc.umask_value /\ proc'.umask_value = last'.mode % 512

\* mkdir of an absent path right after umask(m): stat shows (mode & 0o777) & ~m
C20_MkdirAbsent ==
    (/\ last.op = "umask" /\ last'.op = "mkdir"
     /\ get_absolute_path(proc, last'.path) \notin DOMAIN proc.fs.path_map) =>
        LET s == wasm_vfs_stat(proc', last'.path)
        IN  /\ last'.ret = 0
            /\ s.ret = 0
            /\ \A bit \in C20_PermBits :
                  Bit(s.st.st_mode, bit) <=>
                      (Bit(last'.mode, bit) /\ ~Bit(last.mode, bit))

\* mkdir of a path in the index fails and changes nothing
C20_MkdirExisting ==
    (/\ last'.op = "mkdir"
     /\ get_absolute_path(proc, last'.path) \in DOMAIN proc.fs.path_map) =>
        /\ last'.ret = -1
        /\ proc'.fs.path_map = proc.fs.path_map
        /\ proc'.fs.inodes = proc.fs.inodes
        /\ proc'.fs.next_inode_number = proc.fs.next_inode_number

\* C20: umask(m) returns the mask installed before (0o022 at start) and
\* installs m & 0o777; mkdir(p, mode) of an absent path after it makes a
\* directory whose stat permission bits are (mode & 0o777) & ~m; mkdir of a path
\* in the index returns -1 and changes neither the path index, the inode table
\* nor next_inode_number.
C20_UmaskMkdir ==
    [][C20_Umask /\ C20_MkdirAbsent /\ C20_MkdirExisting]_vars

\* umask(0o1077) then mkdir(/d, 0o1777): the directory has permissions 0o700
C20_Witness ==
    /\ last.op = "mkdir" /\ last.ret = 0 /\ last.mode = 1023
    /\ proc.umask_value = 63
    /\ wasm_vfs_stat(proc, last.path).st.st_mode % 512 = 448

(***************************************************************************)
(* C21.  symlink and readlink.                                             *)
(***************************************************************************)
\* the path readlink is called on, resolved
C21_path == get_absolute_path(proc, last'.path)

\* readlink(l) right after symlink(t, l): the prefix of t that fits
C21_Recovers ==
    (/\ last.op = "symlink" /\ last'.op = "readlink"
     /\ C21_path = get_absolute_path(proc, last.path)) =>
        /\ last'.ret = MinOf(Len(last.buf), last'.count)
        /\ last'.out = SubSeq(last.buf, 1, last'.ret)

\* readlink of an absent path or of an inode that is not a symlink
C21_Refuses ==
    (/\ last'.op = "readlink"
     /\ \/ C21_path \notin DOMAIN proc.fs.path_map
        \/ proc.fs.inodes[proc.fs.path_map[C21_path] + 1].kind # "SymbolicLink") =>
        last'.ret = -1

\* stat(l) after symlink(t, l) is the symlink inode: the one just allocated
C21_NotFollowed ==
    last'.op = "symlink" =>
        LET s == wasm_vfs_stat(proc', last'.path)
        IN  /\ last'.ret = 0
            /\ s.ret = 0
            /\ s.st.st_ino = proc.fs.next_inode_number
            /\ s.st.st_mode - (s.st.st_mode % 4096) = 40960

\* C21: after symlink(t, l), readlink(l, buf, bufsize) returns
\* min(len(t), bufsize) and buf holds that prefix of t byte for byte; readlink
\* of a path that is absent or whose inode is not a symlink returns -1; stat(l)
\* reports the symlink inode itself, with file-type bits 0o120000.
C21_SymlinkReadlink ==
    [][C21_Recovers /\ C21_Refuses /\ C21_NotFollowed]_vars

(***************************************************************************)
(* C22.  truncate and ftruncate.                                           *)
(***************************************************************************)
\* the inode truncate or ftruncate is called on, if any
C22_inode ==
    IF last'.op = "truncate"
    THEN lookup_inode_by_path(proc.fs, get_absolute_path(proc, last'.path))
    ELSE fd_slot(proc, last'.fd)

\* the call is truncate or ftruncate on a File inode
C22_OnFile ==
    /\ last'.op \in {"truncate", "ftruncate"}
    /\ IsSome(C22_inode)
    /\ proc.fs.inodes[Unwrap(C22_inode) + 1].kind = "File"

\* stat of the path, fstat of the descriptor, after the call
C22_stat ==
    IF last'.op = "truncate" THEN wasm_vfs_stat(proc', last'.path)
    ELSE wasm_vfs_fstat(proc', last'.fd)

C22_Resizes ==
    LET n == Unwrap(C22_inode)
        L == last'.offset
        old == Payload(proc, n)
        new == Payload(proc', n)
    IN  /\ last'.ret = 0
        /\ C22_stat.ret = 0 /\ C22_stat.st.st_size = L
        /\ Len(new) = L
        /\ \A i \in 1..MinOf(Len(old), L) : new[i] = old[i]
        /\ \A i \in (Len(old) + 1)..L : new[i] = 0
        /\ \A fd \in UserFds :
              (IsOpen(proc', fd) /\ InodeOf(proc', fd) = n
               /\ Position(proc', fd) >= L) =>
                  \A count \in Counts : wasm_vfs_read(proc', fd, count).ret = 0

\* C22: after truncate(p, L) or ftruncate(fd, L) with L >= 0 on a file, stat
\* reports st_size = L, the bytes below min(old length, L) are unchanged, the
\* bytes from the old length up to L are zero, and a read through a descriptor
\* whose position is at or past L returns 0; with L < 0 the call returns -1 and
\* changes nothing.
C22_Truncate ==
    [][/\ (C22_OnFile /\ last'.offset >= 0) => C22_Resizes
       /\ (last'.op \in {"truncate", "ftruncate"} /\ last'.offset < 0) =>
              (last'.ret = -1 /\ proc' = proc)]_vars

\* two bytes were written through descriptor 3 and the file was truncated to 0:
\* the position, 2, is past the end
C22_Witness ==
    /\ last.op = "truncate" /\ last.offset = 0 /\ last.ret = 0
    /\ IsOpen(proc, 3) /\ Position(proc, 3) = 2
    /\ lookup_inode_by_path(proc.fs, last.path) = Some(InodeOf(proc, 3))
    /\ Payload(proc, InodeOf(proc, 3)) = << >>
    /\ InodeSize(proc, InodeOf(proc, 3)) = 0

(***************************************************************************)
(* C23.  getdents.                                                         *)
(***************************************************************************)
\* getdents on a descriptor opened on a directory
C23_Case ==
    /\ last'.op = "getdents"
    /\ IsOpen(proc, last'.fd)
    /\ proc.fs.inodes[InodeOf(proc, last'.fd) + 1].kind = "Directory"

\* the children of the directory n: the paths whose parent() is a path of n,
\* and whose name fits the name field
C23_children(p, n) ==
    {q \in DOMAIN p.fs.path_map :
        /\ \E d \in DOMAIN p.fs.path_map :
              p.fs.path_map[d] = n /\ parent(q) = Some(d)
        /\ Len(Unwrap(file_name(q))) < D_NAME_LEN}

\* the tag of a record is that of the kind of its inode
C23_Tagged(p, d) ==
    LET kind == p.fs.inodes[d.d_ino + 1].kind
    IN  /\ kind = "File" => d.d_type = 8
        /\ kind = "Directory" => d.d_type = 4
        /\ kind = "SymbolicLink" => d.d_type = 10

\* one call: the position advances by the records emitted
C23_Call ==
    /\ Position(proc', last'.fd) = Position(proc, last'.fd) + Len(last'.out)
    /\ last'.ret = Len(last'.out) * size_of_Dirent
    /\ \A j \in 1..Len(last'.out) : C23_Tagged(proc, last'.out[j])

\* getdents repeated from p until it returns 0, at most fuel times: the
\* records emitted, and the state reached
RECURSIVE C23_run(_, _, _, _, _)
C23_run(p, fd, count, order, fuel) ==
    LET r == wasm_vfs_getdents(p, fd, count, order)
    IN  IF fuel = 0 \/ r.ret <= 0 THEN [proc |-> p, out |-> << >>]
        ELSE LET rest == C23_run(r.proc, fd, count, order, fuel - 1)
             IN  [proc |-> rest.proc, out |-> r.out \o rest.out]

\* repeated from position 0 with room for a record, the calls emit each child
\* once, and then 0 is returned
C23_Total ==
    (Position(proc, last'.fd) = 0 /\ last'.count >= size_of_Dirent) =>
        LET n == InodeOf(proc, last'.fd)
            run == C23_run(proc, last'.fd, last'.count, last'.order,
                           Cardinality(DOMAIN proc.fs.path_map) + 1)
        IN  /\ \A q \in C23_children(proc, n) :
                  Cardinality({j \in 1..Len(run.out) :
                                  /\ run.out[j].d_ino = proc.fs.path_map[q]
                                  /\ Some(run.out[j].d_name) = file_name(q)}) = 1
            /\ Len(run.out) = Cardinality(C23_children(proc, n))
            /\ wasm_vfs_getdents(run.proc, last'.fd, last'.count,
                                 last'.order).ret = 0

\* C23: repeated getdents(fd, buf, count) on a directory descriptor, with no
\* change of the path index between the calls, emits each child of the
\* directory whose name is shorter than 256 bytes exactly once in total,
\* advances the position in each call by the number of records the call
\* emitted, tags each record 8, 4 or 10 by the kind of its inode, and returns 0
\* once all children have been emitted.
C23_Getdents ==
    [][C23_Case => (C23_Call /\ C23_Total)]_vars

(***************************************************************************)
(* C24.  chdir and fchdir.                                                 *)
(***************************************************************************)
\* the inode the call targets, if any: that of the resolved path, that in the
\* slot of the descriptor
C24_target ==
    IF last'.op = "chdir"
    THEN lookup_inode_by_path(proc.fs, get_absolute_path(proc, last'.path))
    ELSE fd_slot(proc, last'.fd)

C24_IsDirectory ==
    /\ IsSome(C24_target)
    /\ proc.fs.inodes[Unwrap(C24_target) + 1].kind = "Directory"

\* what getcwd copies to a buffer that is large enough
C24_getcwd == wasm_vfs_getcwd(proc', 300)

\* the call returns 0 and getcwd gives the directory's absolute path
C24_Moves ==
    /\ ~last'.panicked
    /\ last'.ret = 0
    /\ C24_getcwd.ret = 1
    /\ is_absolute(C24_getcwd.out)
    /\ last'.op = "chdir" =>
          C24_getcwd.out = get_absolute_path(proc, last'.path)
    /\ last'.op = "fchdir" =>
          lookup_inode_by_path(proc'.fs, C24_getcwd.out) = C24_target

\* C24: chdir(path) and fchdir(fd) return 0 exactly when the target resolves
\* to a Directory inode, and getcwd then returns that directory's absolute
\* path; when the path is absent, the descriptor is not open or the target is
\* not a directory they return -1 and the current directory is unchanged.
C24_ChdirFchdir ==
    [][last'.op \in {"chdir", "fchdir"} =>
          IF C24_IsDirectory THEN C24_Moves
          ELSE /\ last'.ret = -1
               /\ proc'.fs.current_directory = proc.fs.current_directory]_vars

(***************************************************************************)
(* C25.  The root.                                                         *)
(***************************************************************************)
\* C25: after any sequence of calls, inode 0 is a Directory and the path "/"
\* is in the path index, bound to inode 0.
C25_RootStays ==
    /\ proc.fs.inodes[1].kind = "Directory"
    /\ lookup_inode_by_path(proc.fs, RootPath) = Some(0)

(***************************************************************************)
(* C26.  Directories have no payload.                                      *)
(***************************************************************************)
\* C26: after any sequence of calls, the payload of every Directory inode
\* has length 0.
C26_DirectoriesEmpty ==
    \A i \in 1..Len(proc.fs.inodes) :
        (/\ proc.fs.inodes[i].kind = "Directory"
         /\ (i - 1) \in DOMAIN proc.fs.files)
            => Len(proc.fs.files[i - 1]) = 0

(***************************************************************************)
(* C27.  Trailing slashes.                                                 *)
(***************************************************************************)
\* C27: after any sequence of calls, no key of the path index other than "/"
\* ends in '/'.
C27_NoTrailingSlash ==
    \A q \in DOMAIN proc.fs.path_map :
        (q # RootPath /\ q # << >>) => q[Len(q)] # "/"

C29_numbers(p) ==
    {p.fs.inodes[i].number : i \in 1..Len(p.fs.inodes)}
        \cup (0..(Len(p.fs.inodes) - 1))
        \cup {p.fs.path_map[q] : q \in DOMAIN p.fs.path_map}
        \cup DOMAIN p.fs.files
        \cup {Unwrap(p.fd_table[fd]) :
                 fd \in {f \in 0..(FdTableLen - 1) : IsSome(p.fd_table[f])}}

\* the call makes a file, a directory or a symbolic link
C29_Creates ==
    \/ last'.op \in {"mkdir", "symlink"} /\ last'.ret = 0
    \/ /\ last'.op = "open" /\ HasFlag(last'.flags, O_CREAT)
       /\ lookup_inode_by_path(proc.fs, last'.path) = None

\* the creation takes the number next_inode_number, which no inode has, and
\* leaves the records of the table as they were
C29_Fresh ==
    LET n == proc.fs.next_inode_number
    IN  /\ n \notin C29_numbers(proc)
        /\ proc'.fs.next_inode_number = n + 1
        /\ Len(proc'.fs.inodes) = n + 1
        /\ proc'.fs.inodes[n + 1].number = n
        /\ \A i \in 1..Len(proc.fs.inodes) :
              proc'.fs.inodes[i] = proc.fs.inodes[i]

RECURSIVE C30_concat(_)
C30_concat(lines) ==
    IF lines = << >> THEN << >> ELSE Head(lines) \o C30_concat(Tail(lines))

\* line ends in a newline, its only one
C30_IsLine(line) ==
    /\ Len(line) >= 1
    /\ \A i \in 1..Len(line) : (line[i] = NEWLINE) <=> (i = Len(line))

\* the call is write(1, buf, count)
C30_Case == last'.op = "write" /\ last'.fd = 1

\* the bytes written on descriptor 1 so far are the lines the host received,
\* in order, followed by the accumulator, which has no newline
C30_Accounted ==
    /\ \A k \in 1..Len(host_lines) : C30_IsLine(host_lines[k])
    /\ \A i \in 1..Len(STDOUT_LINE_ACCUM) : STDOUT_LINE_ACCUM[i] # NEWLINE

\* C30: each write(1, buf, count) returns count; the host receives, in order,
\* exactly the newline-terminated lines of the concatenation of the buffers,
\* one per invocation, each with its only newline last; the bytes after the
\* last newline stay in the accumulator; and the path index, the inodes, the
\* payloads and the descriptors do not change.
C30_WriteStdout ==
    [][C30_Case =>
          /\ last'.ret = last'.count
          /\ proc' = proc
          /\ Len(host_lines') >= Len(host_lines)
          /\ SubSeq(host_lines', 1, Len(host_lines)) = host_lines
          /\ C30_concat(host_lines') \o STDOUT_LINE_ACCUM'
                = C30_concat(host_lines) \o STDOUT_LINE_ACCUM \o last'.buf
          /\ C30_Accounted'
          /\ Len(host_lines') - Len(host_lines)
                = Cardinality({i \in 1..Len(last'.buf) : last'.buf[i] = NEWLINE})]_vars

\* "a\nb" written after "a": the host has the line "aa\n", the accumulator
\* "b", and a file is open
C30_Witness ==
    /\ last.op = "write" /\ last.fd = 1 /\ last.ret = 3
    /\ host_lines = <<(<<97, 97, NEWLINE>>)>>
    /\ STDOUT_LINE_ACCUM = <<98>>
    /\ IsSome(lookup_inode_by_path(proc.fs, PathA))

(***************************************************************************)
(* C31.  The Proc guard.                                                   *)
(***************************************************************************)
\* C31: at most one entry point has the Proc guard at any time, and the lock
\* is free whenever no call is in progress.
C31_OneGuard ==
    /\ Cardinality({t \in Threads : thread[t].guards > 0}) <= 1
    /\ \A t \in Threads : thread[t].guards <= 1
    /\ (\A t \in Threads : thread[t].pc = "idle") => ~locked

(***************************************************************************)
(* C32.  mount_in_memory.                                                  *)
(***************************************************************************)
\* caller t is in mount_in_memory, or in a call made by it
C32_InMount(t) ==
    /\ thread[t].pc # "idle"
    /\ thread[t].op = "mount" \/ thread[t].outer

\* C32: a call of mount_in_memory(1, files) returns, with 0.
C32_MountReturns ==
    \A t \in Threads :
        C32_InMount(t) ~>
            (thread[t].pc = "idle" /\ thread[t].op = "mount" /\ thread[t].ret = 0)

(***************************************************************************)
(* C33.  One Proc.                                                         *)
(***************************************************************************)
\* C33: the Proc is created once: no caller stores a new one into
\* GLOBAL_PROC when it is set, and a file that a call created stays.
C33_CreatedOnce ==
    [][/\ GLOBAL_PROC_is_some =>
             \A t \in Threads :
                 ~(thread[t].pc = "init" /\ thread'[t].pc = "lock")
       /\ IsSome(lookup_inode_by_path(proc.fs, MountPath)) =>
             IsSome(lookup_inode_by_path(proc'.fs, MountPath))]_vars

(***************************************************************************)
(* C34.  write on descriptor 1 by two callers.                             *)
(***************************************************************************)
\* C34: every line handed to the host is the line of one of the calls, as
\* in a serial order of them (each caller writes one whole line per call).
C34_SerialLines ==
    \A k \in 1..Len(host_lines) :
        \E t \in Threads : host_lines[k] = StdoutBuf(t)

(***************************************************************************)
(* C35.  splice without an output offset, and sendfile.                    *)
(***************************************************************************)
\* the call is splice(fd_in, off_in, fd_out, NULL, len, 0)
C35_Case == last'.op = "splice" /\ last'.off_out = None

\* what sendfile(fd_out, fd_in, off_in, len) gives in the state of the call
C35_sendfile ==
    wasm_vfs_sendfile(proc, last'.fd2, last'.fd, last'.off_in, last'.count)

\* C35: splice(fd_in, off_in, fd_out, NULL, len, 0) and
\* sendfile(fd_out, fd_in, off_in, len) from the same state give the same
\* return value, payloads, inode sizes, *off_in and handle positions.
C35_SpliceIsSendfile ==
    [][C35_Case =>
          /\ last'.ret = C35_sendfile.ret
          /\ last'.off_in_after = C35_sendfile.off_in
          /\ proc' = C35_sendfile.proc]_vars

(***************************************************************************)
(* C36.  The FD table and the handles.                                     *)
(***************************************************************************)
\* C36: after any sequence of open, close, dup and dup2, fd_table[fd] is set
\* if and only if open_files holds a handle for fd, and the handle's
\* inode_number is the number in the slot.
C36_TableAndHandles ==
    \A fd \in 0..(FdTableLen - 1) :
        /\ IsSome(proc.fd_table[fd]) <=> IsSome(Handle(proc, fd))
        /\ IsSome(Handle(proc, fd)) =>
              proc.fd_table[fd] = Some(Unwrap(Handle(proc, fd)).inode_number)

(***************************************************************************)
(* C37.  collections::HashMap and the finite map.                          *)
(***************************************************************************)
\* C37: while at most CAP keys are live, get(k) is the value of the latest
\* insert(k, v) not followed by remove(k), None otherwise, and iter yields
\* each live key once and nothing else.
C37_RefinesMap ==
    LET it == HashMap_iter(HashMap_entries)
    IN  /\ \A key \in 3..5 : HashMap_get(HashMap_entries, key) = MapGet(live, key)
        /\ \A i \in 1..Len(it) : it[i][1].k \in DOMAIN live
        /\ \A key \in DOMAIN live :
              Cardinality({i \in 1..Len(it) : it[i][1].k = key}) = 1

(***************************************************************************)
(* C38.  Parents.                                                          *)
(***************************************************************************)
\* C38: after any sequence of calls, every path of the path index other than
\* "/" has its parent() in the path index, bound to a Directory inode.
C38_ParentsExist ==
    \A q \in (DOMAIN proc.fs.path_map) \ {RootPath} :
        /\ IsSome(parent(q))
        /\ Unwrap(parent(q)) \in DOMAIN proc.fs.path_map
        /\ proc.fs.inodes[proc.fs.path_map[Unwrap(parent(q))] + 1].kind
              = "Directory"

(***************************************************************************)
(* C39.  The current directory.                                            *)
(***************************************************************************)
\* C39: after any sequence of calls, current_directory is an absolute path
\* of the path index, bound to a Directory inode.
C39_CwdIsDirectory ==
    LET cwd == proc.fs.current_directory
    IN  /\ Len(cwd) >= 1 /\ cwd[1] = "/"
        /\ cwd \in DOMAIN proc.fs.path_map
        /\ proc.fs.inodes[proc.fs.path_map[cwd] + 1].kind = "Directory"

(***************************************************************************)
(* C40.  getdents lists the descriptor's own directory.                    *)
(***************************************************************************)
\* the paths bound to the inode n
C40_names(p, n) == {d \in DOMAIN p.fs.path_map : p.fs.path_map[d] = n}

\* the record d is that of an entry whose parent() is a path of the inode n
C40_ChildOf(p, n, d) ==
    \E q \in DOMAIN p.fs.path_map :
        /\ p.fs.path_map[q] = d.d_ino
        /\ file_name(q) = Some(d.d_name)
        /\ IsSome(parent(q)) /\ Unwrap(parent(q)) \in C40_names(p, n)

\* C40: getdents on a descriptor emits only entries whose parent() is a path
\* bound to the descriptor's inode; on a descriptor whose directory has no
\* path left it emits nothing.
C40_GetdentsOwnDirectory ==
    [][(last'.op = "getdents" /\ IsOpen(proc, last'.fd)) =>
          LET n == InodeOf(proc, last'.fd)
          IN  /\ \A j \in 1..Len(last'.out) : C40_ChildOf(proc, n, last'.out[j])
              /\ C40_names(proc, n) = {} => last'.out = << >>]_vars

=============================================================================
